---- MODULE Spec2Model ----
(***************************************************************************)
(* A model of bakana's analysis state graph: the per-step compute rules,   *)
(* the worker message protocol of the embedding steps (viz_parent.js,      *)
(* UmapState, the t-SNE module) and the drivers runAnalysis, saveAnalysis  *)
(* and loadAnalysis.                                                       *)
(*                                                                         *)
(* Each specification exercises one state object, with the changed flags   *)
(* of its upstream steps driven by stub actions, or one of the drivers,    *)
(* which chain the steps as analysis.js wires them.                        *)
(***************************************************************************)
EXTENDS Integers, Sequences, FiniteSets, TLC

\* ---------------------------------------------------------------- bounds
\* tasks one worker is sent in a behaviour (caps cache.counter)
MaxTasks == 3
\* summary()/serialize() calls on an embedding step that wait at one time
MaxCalls == 1
\* '*_iter' messages a worker posts during one animated run
MaxIter == 1
\* rebuilds of the neighbor index in a behaviour
MaxIndex == 1

\* ------------------------------------------------------- value domains
\* A property that was never assigned (`this.#parameters = {}`): it is
\* different (!==) from every argument of the documented domains.
Undefined == -1

Workers == {"tsne", "umap"}

\* the neighbor search results handed to a worker: `k` neighbors found in
\* version `index` of the neighbor index
NoNeighbors == [present |-> FALSE, k |-> 0, index |-> 0]

\* an embedding, named by what produced it; the payload of an error
NoCoords == [tag |-> "none", k |-> 0, index |-> 0, epochs |-> 0, min_dist |-> 0]
FileCoords == [tag |-> "file", k |-> 0, index |-> 0, epochs |-> 0, min_dist |-> 0]
Scribble == [tag |-> "scribble", k |-> 0, index |-> 0, epochs |-> 0, min_dist |-> 0]
WorkerError == [tag |-> "error", k |-> 0, index |-> 0, epochs |-> 0, min_dist |-> 0]

UmapArgs(num_neighbors, num_epochs, min_dist, animate) ==
    [num_neighbors |-> num_neighbors, num_epochs |-> num_epochs,
     min_dist |-> min_dist, animate |-> animate]

NoParams == UmapArgs(Undefined, Undefined, Undefined, FALSE)

\* the arguments compute is called with: a base, one change of each
\* parameter, and the base with animation
UmapInputs == {UmapArgs(15, 500, 1, FALSE), UmapArgs(20, 500, 1, FALSE),
               UmapArgs(15, 501, 1, FALSE), UmapArgs(15, 500, 2, FALSE),
               UmapArgs(15, 500, 1, TRUE)}

\* no promise (`this.#run = null`)
Null == 0

VARIABLES
    changed,     \* step name -> the step's `changed` flag
    index,       \* version of the neighbor index held by NeighborIndexState
    um,          \* UmapState: #parameters, #reloaded, #run
    ts,          \* the t-SNE step: parameters, cache.reloaded, cache.run
    cache,       \* worker -> the bookkeeping {counter, promises} of its tasks
    prom,        \* worker -> the promises sendTask created, in creation order
    sent,        \* worker -> command and id of every task sent, in order
    toWorker,    \* worker -> the messages the worker has yet to process
    fromWorker,  \* worker -> the messages the callback has yet to handle
    alive,       \* worker -> not terminated
    wst,         \* worker -> the worker thread's own state
    calls,       \* the summary()/serialize() calls that wait for the worker
    ret,         \* what the latest finished summary()/serialize() yielded
    heap,        \* the typed arrays held by reference: those read from the
                 \* file, and those the latest summary() returned
    last,        \* the latest compute (or unserialize) and its arguments
    unit,        \* the step a behaviour of the step specification exercises
    st,          \* step name -> #parameters, #cache (the entries assigned)
                 \* and the entries the latest compute replaced
                 \* or freed
    upstream,    \* what a step reads of the steps before it, beyond their
                 \* changed flags: which modalities are valid, the block
    drv,         \* runAnalysis, saveAnalysis or loadAnalysis under way: its
                 \* position, the steps it has dealt with, what it awaits
    mem          \* the Wasm heap: the buffers allocated, and what the caches
                 \* of InputsState, the QC and PCA states, CellFilteringState
                 \* and CombineEmbeddingsState refer to

wvars == <<cache, prom, sent, toWorker, fromWorker, alive, wst>>
svars == <<unit, st, upstream>>
vars == <<changed, index, um, ts, cache, prom, sent, toWorker, fromWorker,
          alive, wst, calls, ret, heap, last, unit, st, upstream, drv, mem>>

\* ------------------------------------------------ viz_parent.js: tasks

\* computeNeighbors: the search results for k neighbors in the current index
computeNeighbors(ix, k) == [present |-> TRUE, k |-> k, index |-> ix]

Pending == [st |-> "pending", value |-> NoCoords, settles |-> 0]

\* cache.promises[i] = {resolve, reject}: an assignment, which replaces an
\* entry already stored under i
PutPromise(promises, i, handle) ==
    [j \in (DOMAIN promises) \cup {i} |-> IF j = i THEN handle ELSE promises[j]]

DropPromise(promises, i) ==
    [j \in (DOMAIN promises) \ {i} |-> promises[j]]

\* what sendTask leaves in cache.counter
NextCounterStuck(counter) == counter
NextCounter(counter) == counter + 1

\* sendTask: store the new promise under the current counter, increment the
\* counter, stamp the payload with the id and hand it to the worker
sendTaskLater(w, payload) ==
    LET i == cache[w].counter
        handle == Len(prom[w]) + 1
    IN  /\ prom' = [prom EXCEPT ![w] = Append(@, Pending)]
        /\ cache' = [cache EXCEPT ![w] =
                        [counter |-> NextCounter(i),
                         promises |-> PutPromise(@.promises, i, handle)]]
        /\ toWorker' = toWorker
        /\ sent' = [sent EXCEPT ![w] = Append(@, [cmd |-> payload.cmd, id |-> i])]
sendTask(w, payload) ==
    LET i == cache[w].counter
        handle == Len(prom[w]) + 1
    IN  /\ prom' = [prom EXCEPT ![w] = Append(@, Pending)]
        /\ cache' = [cache EXCEPT ![w] =
                        [counter |-> NextCounter(i),
                         promises |-> PutPromise(@.promises, i, handle)]]
        /\ toWorker' = [toWorker EXCEPT ![w] = Append(@, [payload EXCEPT !.id = i])]
        /\ sent' = [sent EXCEPT ![w] = Append(@, [cmd |-> payload.cmd, id |-> i])]

TsneArgs(perplexity, iterations, animate) ==
    [perplexity |-> perplexity, iterations |-> iterations, animate |-> animate]

TsneNoParams == TsneArgs(Undefined, Undefined, FALSE)

Message(w, cmd) ==
    [cmd |-> cmd, id |-> 0, neighbors |-> NoNeighbors,
     params |-> IF w = "umap" THEN NoParams ELSE TsneNoParams]

\* runWithNeighbors: a RUN message, with the neighbors when there are any
runWithNeighbors(w, args, nn_out) ==
    sendTask(w, [Message(w, "RUN") EXCEPT !.params = args, !.neighbors = nn_out])

\* the promise handle the next sendTask returns
NextHandle(w) == Len(prom[w]) + 1

CanSend(w) == Len(sent[w]) < MaxTasks

\* ------------------------------------- viz_parent.js: the reply callback

IterType(w) == IF w = "umap" THEN "umap_iter" ELSE "tsne_iter"

\* type.endsWith("_iter")
EndsWithIter(type) == type \in {"umap_iter", "tsne_iter"}

\* a message of the worker: msg.data.{type, id, data, error}
Reply(type, id, data, error) ==
    [type |-> type, id |-> id, data |-> data, error |-> error]

\* whether the callback rejects the task's promise
Rejects(type) == type = "error"

\* the bookkeeping entry the callback settles for a message
ReplyEntry(promises, msg) == msg.id

\* fun.reject(msg.data.error) or fun.resolve(msg.data.data): only the first
\* call on a promise settles it
Settle(p, msg) ==
    IF p.st = "pending"
    THEN IF Rejects(msg.type)
         THEN [st |-> "rejected", value |-> msg.error, settles |-> p.settles + 1]
         ELSE [st |-> "resolved", value |-> msg.data, settles |-> p.settles + 1]
    ELSE [p EXCEPT !.settles = @ + 1]

\* what is left of cache.promises once entry i was used
AfterReply(promises, i) == DropPromise(promises, i)

\* the callback registered by initializeWorker, run for one posted message
Callback(w) ==
    /\ fromWorker[w] # <<>>
    /\ LET msg == Head(fromWorker[w])
           i == ReplyEntry(cache[w].promises, msg)
       IN  /\ fromWorker' = [fromWorker EXCEPT ![w] = Tail(@)]
           /\ IF EndsWithIter(msg.type) \/ i \notin DOMAIN cache[w].promises
              THEN \* animateFun(x, y, iteration); or `fun` is undefined and
                   \* the callback throws a TypeError
                   UNCHANGED <<cache, prom>>
              ELSE LET handle == cache[w].promises[i]
                   IN  /\ prom' = [prom EXCEPT ![w][handle] = Settle(@, msg)]
                       /\ cache' = [cache EXCEPT ![w].promises = AfterReply(@, i)]
    /\ UNCHANGED <<changed, index, um, ts, sent, toWorker, alive, wst, calls,
                   ret, heap, mem, last, svars>>

\* ------------------------------------------------- the worker thread
\* (tsne.worker.js / umap.worker.js) Tasks are processed in the order
\* submitted; each gets one reply carrying its id, an animated run posts
\* '*_iter' messages first, and a task may fail with an 'error' reply.

RunCoords(w, nn, params) ==
    IF w = "umap"
    THEN [tag |-> "run", k |-> nn.k, index |-> nn.index,
          epochs |-> params.num_epochs, min_dist |-> params.min_dist]
    ELSE [tag |-> "run", k |-> nn.k, index |-> nn.index,
          epochs |-> params.iterations, min_dist |-> 0]

Iters(w, n) == [j \in 1..n |-> Reply(IterType(w), 0, NoCoords, NoCoords)]

Failure(m) == <<Reply("error", m.id, NoCoords, WorkerError)>>

WorkerReplies(w, m, ok, n) ==
    LET nn == IF m.neighbors.present THEN m.neighbors ELSE wst[w].nn
    IN  CASE m.cmd = "INIT" ->
               [st |-> wst[w], out |-> <<Reply("init", m.id, NoCoords, NoCoords)>>]
          [] m.cmd = "RUN" /\ ok /\ nn.present ->
               [st |-> [nn |-> nn, coords |-> RunCoords(w, nn, m.params)],
                out |-> Iters(w, IF m.params.animate THEN n ELSE 0)
                          \o <<Reply("run", m.id, NoCoords, NoCoords)>>]
          [] m.cmd = "RUN" /\ ~(ok /\ nn.present) ->
               [st |-> [wst[w] EXCEPT !.nn = nn], out |-> Failure(m)]
          [] m.cmd = "FETCH" /\ wst[w].coords.tag = "run" ->
               [st |-> wst[w],
                out |-> <<Reply("fetch", m.id, wst[w].coords, NoCoords)>>]
          [] m.cmd = "RERUN" /\ wst[w].coords.tag = "run" ->
               [st |-> wst[w],
                out |-> Iters(w, n) \o <<Reply("rerun", m.id, NoCoords, NoCoords)>>]
          [] OTHER ->
               [st |-> wst[w], out |-> Failure(m)]

\* how a task can go: whether it succeeds, how many iterations it shows
Outcomes(m) ==
    IF m.cmd = "RUN"
    THEN {<<TRUE, 0>>, <<FALSE, 0>>} \cup
         (IF m.params.animate THEN {<<TRUE, n>> : n \in 1..MaxIter} ELSE {})
    ELSE IF m.cmd = "RERUN" THEN {<<TRUE, n>> : n \in 0..MaxIter}
    ELSE {<<TRUE, 0>>}

WorkerStep(w) ==
    /\ alive[w]
    /\ toWorker[w] # <<>>
    /\ \E o \in Outcomes(Head(toWorker[w])) :
          LET r == WorkerReplies(w, Head(toWorker[w]), o[1], o[2])
          IN  /\ wst' = [wst EXCEPT ![w] = r.st]
              /\ fromWorker' = [fromWorker EXCEPT ![w] = @ \o r.out]
    /\ toWorker' = [toWorker EXCEPT ![w] = Tail(@)]
    /\ UNCHANGED <<changed, index, um, ts, cache, prom, sent, alive, calls, ret,
                   heap, mem, last, svars>>

\* worker_parent.js terminateWorker: the worker thread stops; it is handed
\* the worker alone, not the bookkeeping of its tasks
terminateWorker(w) ==
    /\ alive' = [alive EXCEPT ![w] = FALSE]
    /\ UNCHANGED <<cache, prom, sent, toWorker, fromWorker, wst>>

\* the promise of initializeWorker has resolved: callers await ready()
\* before any other method
Ready(w) == prom[w] # <<>> /\ prom[w][1].st = "resolved"

\* the methods of a step are called on a step that was not freed
Usable(w) == Ready(w) /\ alive[w]

\* ----------------------------------------------------------- the steps
\* the step names of analysis.js
Steps == {"inputs", "quality_control", "adt_quality_control", "cell_filtering",
          "normalization", "adt_normalization", "feature_selection", "pca",
          "adt_pca", "combine_embeddings", "batch_correction", "neighbor_index",
          "tsne", "umap", "kmeans_cluster", "snn_graph_cluster",
          "choose_clustering", "marker_detection", "cell_labelling",
          "custom_selections"}

NoFields == [k \in {} |-> 0]

\* create_analysis: the steps a step is constructed with
UpstreamOf(step) ==
    CASE step = "quality_control" -> {"inputs"}
      [] step = "adt_quality_control" -> {"inputs"}
      [] step = "cell_filtering" ->
            {"inputs", "quality_control", "adt_quality_control"}
      [] step = "normalization" -> {"quality_control", "cell_filtering"}
      [] step = "adt_normalization" -> {"adt_quality_control", "cell_filtering"}
      [] step = "feature_selection" -> {"cell_filtering", "normalization"}
      [] step = "pca" -> {"cell_filtering", "normalization", "feature_selection"}
      [] step = "adt_pca" -> {"cell_filtering", "adt_normalization"}
      [] step = "combine_embeddings" -> {"pca", "adt_pca"}
      [] step = "batch_correction" -> {"cell_filtering", "combine_embeddings"}
      [] step = "neighbor_index" -> {"batch_correction"}
      [] step = "tsne" -> {"neighbor_index"}
      [] step = "umap" -> {"neighbor_index"}
      [] step = "kmeans_cluster" -> {"batch_correction"}
      [] step = "snn_graph_cluster" -> {"neighbor_index"}
      [] step = "choose_clustering" -> {"snn_graph_cluster", "kmeans_cluster"}
      [] step = "marker_detection" ->
            {"cell_filtering", "normalization", "adt_normalization",
             "choose_clustering"}
      [] step = "cell_labelling" -> {"inputs", "marker_detection"}
      [] step = "custom_selections" ->
            {"cell_filtering", "normalization", "adt_normalization"}
      [] OTHER -> {}

\* what is remembered of a call of compute: its arguments, whether they are
\* those of the call before, and whether no upstream flag was set
NoCall == [op |-> "none", args |-> NoFields, repeat |-> FALSE, quiet |-> FALSE,
           prior |-> NoFields]
Unserialized(a) ==
    [op |-> "unserialize", args |-> a, repeat |-> FALSE, quiet |-> FALSE,
     prior |-> NoFields]
Called(step, a) ==
    [op |-> "compute", args |-> a,
     repeat |-> last.op = "compute" /\ last.args = a,
     quiet |-> \A s \in UpstreamOf(step) : ~changed[s],
     prior |-> IF step = unit /\ step \in DOMAIN st /\ last.op = "compute"
               THEN last.args ELSE NoFields]

SetChanged(step, b) == changed' = [changed EXCEPT ![step] = b]

\* NeighborIndexState.compute, as the embedding steps see it: the flag, and a
\* new index when it is set
IndexCompute(b) ==
    /\ b => index < MaxIndex
    /\ index' = IF b THEN index + 1 ELSE index
    /\ SetChanged("neighbor_index", b)
    /\ UNCHANGED <<um, ts, wvars, calls, ret, heap, mem, last, svars>>

\* ------------------------------------------------------------ UmapState

NotReloaded == [present |-> FALSE]
Reloaded == [present |-> TRUE]

\* `same_neighbors` as compute first sets it
SameNeighborsIgnoringIndex(indexChanged, stored, num_neighbors) ==
    stored.num_neighbors = num_neighbors
SameNeighbors(indexChanged, stored, num_neighbors) ==
    ~indexChanged /\ stored.num_neighbors = num_neighbors

\* the test of compute's early return
UmapSame(indexChanged, stored, args) ==
    /\ SameNeighbors(indexChanged, stored, args.num_neighbors)
    /\ args.num_epochs = stored.num_epochs
    /\ args.min_dist = stored.min_dist

\* the `reneighbor` argument compute hands to #core: !same_neighbors, after
\* a reloaded state has cleared same_neighbors
ReneighborIgnoringReload(indexChanged, stored, reloaded, num_neighbors) ==
    ~SameNeighbors(indexChanged, stored, num_neighbors)
Reneighbor(indexChanged, stored, reloaded, num_neighbors) ==
    ~(IF reloaded THEN FALSE ELSE SameNeighbors(indexChanged, stored, num_neighbors))

\* #core: the RUN message leaves within the call
UmapCore(args, reneighbor) ==
    LET nn_out == IF reneighbor THEN computeNeighbors(index, args.num_neighbors)
                  ELSE NoNeighbors
    IN  runWithNeighbors("umap", args, nn_out)

\* the parameters compute leaves in #parameters when it has submitted a run
Stored(stored, args) == args

\* UmapState.compute
UmapCompute(args) ==
    LET ixc == changed["neighbor_index"]
    IN  /\ Usable("umap")
        /\ IF UmapSame(ixc, um.parameters, args)
           THEN /\ SetChanged("umap", FALSE)
                /\ UNCHANGED <<um, cache, prom, sent, toWorker>>
           ELSE /\ CanSend("umap")
                /\ UmapCore(args, Reneighbor(ixc, um.parameters,
                                             um.reloaded.present,
                                             args.num_neighbors))
                /\ um' = [parameters |-> Stored(um.parameters, args),
                          reloaded |-> NotReloaded,
                          run |-> NextHandle("umap")]
                /\ SetChanged("umap", TRUE)
        /\ last' = Called("umap", args)
        /\ UNCHANGED <<index, ts, fromWorker, alive, wst, calls, ret, heap, mem, svars>>

\* the `copy` argument summary() and serialize() hand to #fetch_results
SummaryCopy == TRUE
SerializeCopy == FALSE

NoRet == [from |-> "none", st |-> "none", buf |-> "none", value |-> NoCoords,
          iterations |-> 0, reloaded |-> FALSE, fetch |-> Null]

\* #fetch_results up to its first await: the reloaded arrays (sliced when
\* copy is set) with iterations = num_epochs, or a wait for this.#run
FetchResults(from, copy) ==
    /\ Usable("umap")
    /\ IF um.reloaded.present
       THEN /\ mem' = mem
            /\ heap' = IF copy THEN [heap EXCEPT !.out = heap.file] ELSE heap
            /\ ret' = [from |-> from, st |-> "done",
                       buf |-> IF copy THEN "out" ELSE "file",
                       value |-> heap.file,
                       iterations |-> um.parameters.num_epochs,
                       reloaded |-> TRUE, fetch |-> Null]
            /\ UNCHANGED calls
       ELSE /\ Len(calls) < MaxCalls
            /\ calls' = Append(calls, [from |-> from, st |-> "awaitRun",
                                       run |-> um.run, fetch |-> Null])
            /\ UNCHANGED <<heap, mem, ret>>
    /\ UNCHANGED <<changed, index, um, ts, wvars, last, svars>>

\* UmapState.summary
UmapSummary == FetchResults("summary", SummaryCopy)

\* UmapState.serialize
UmapSerialize == FetchResults("serialize", SerializeCopy)

\* `await this.#run`: what the continuation of #fetch_results waits for
AwaitedNothing(run) == "resolved"
Awaited(run) == IF run = Null THEN "resolved" ELSE prom["umap"][run].st

Without(seq, c) == SubSeq(seq, 1, c - 1) \o SubSeq(seq, c + 1, Len(seq))

Failed(call, p) ==
    [from |-> call.from, st |-> "failed", buf |-> "none", value |-> p.value,
     iterations |-> 0, reloaded |-> FALSE, fetch |-> call.fetch]

\* #fetch_results after `await this.#run`: FETCH is sent, or the rejection
\* of the run is passed on
FetchResume ==
    /\ \E c \in 1..Len(calls) :
          /\ calls[c].st = "awaitRun"
          /\ Awaited(calls[c].run) # "pending"
          /\ IF Awaited(calls[c].run) = "resolved"
             THEN /\ CanSend("umap")
                  /\ sendTask("umap", Message("umap", "FETCH"))
                  /\ calls' = [calls EXCEPT ![c].st = "awaitFetch",
                                            ![c].fetch = NextHandle("umap")]
                  /\ UNCHANGED ret
             ELSE /\ calls' = Without(calls, c)
                  /\ ret' = Failed(calls[c], prom["umap"][calls[c].run])
                  /\ UNCHANGED <<cache, prom, sent, toWorker>>
    /\ UNCHANGED <<changed, index, um, ts, fromWorker, alive, wst, heap, mem, last, svars>>

\* the FETCH reply reaches the caller: summary() returns the arrays of the
\* message, serialize() writes them
FetchDone ==
    /\ \E c \in 1..Len(calls) :
          LET p == prom["umap"][calls[c].fetch]
          IN  /\ calls[c].st = "awaitFetch"
              /\ p.st # "pending"
              /\ calls' = Without(calls, c)
              /\ IF p.st = "resolved"
                 THEN /\ mem' = mem
                      /\ heap' = IF calls[c].from = "summary"
                                 THEN [heap EXCEPT !.out = p.value] ELSE heap
                      /\ ret' = [from |-> calls[c].from, st |-> "done",
                                 buf |-> IF calls[c].from = "summary"
                                         THEN "out" ELSE "none",
                                 value |-> p.value,
                                 iterations |-> p.value.epochs,
                                 reloaded |-> FALSE, fetch |-> calls[c].fetch]
                 ELSE /\ ret' = Failed(calls[c], p)
                      /\ UNCHANGED <<heap, mem>>
    /\ UNCHANGED <<changed, index, um, ts, wvars, last, svars>>

\* the caller of summary() writes into the arrays it was given
CallerWrite ==
    /\ ret.from = "summary"
    /\ ret.st = "done"
    /\ heap[ret.buf] # Scribble
    /\ mem' = mem
    /\ heap' = [heap EXCEPT ![ret.buf] = Scribble]
    /\ UNCHANGED <<changed, index, um, ts, wvars, calls, ret, last, svars>>

\* UmapState.free: killWorker(this.#worker_id)
UmapFree ==
    /\ Usable("umap")
    /\ terminateWorker("umap")
    /\ UNCHANGED <<changed, index, um, ts, calls, ret, heap, mem, last, svars>>

\* the arguments animate() hands to #core on a reloaded state: the stored
\* parameters, animate = true, reneighbor = true
AnimateArgs(stored) == [stored EXCEPT !.animate = TRUE]
AnimateReneighborNever == FALSE
AnimateReneighbor == TRUE

\* what animate() has returned: a promise chained on a task's promise
Animated(reloaded, handle) ==
    [from |-> "animate", st |-> "awaitAnimate", run |-> handle,
     fetch |-> IF reloaded THEN Null ELSE handle]

\* UmapState.animate: on a reloaded state the reloaded result is dropped and
\* #core sends RUN at once; otherwise RERUN is sent. The promise returned is
\* this.#run.then(...) or the promise of the RERUN task.
UmapAnimate ==
    /\ Usable("umap")
    /\ CanSend("umap")
    /\ Len(calls) < MaxCalls
    /\ IF um.reloaded.present
       THEN /\ UmapCore(AnimateArgs(um.parameters), AnimateReneighbor)
            /\ um' = [um EXCEPT !.reloaded = NotReloaded,
                                !.run = NextHandle("umap")]
       ELSE /\ sendTask("umap", Message("umap", "RERUN"))
            /\ UNCHANGED um
    /\ calls' = Append(calls, Animated(um.reloaded.present, NextHandle("umap")))
    /\ UNCHANGED <<changed, index, ts, fromWorker, alive, wst, ret, heap, mem, last,
                   svars>>

\* the promise animate() returned settles: with the mimicked 'umap_rerun'
\* response once the run has resolved, with the reply of RERUN, or with the
\* rejection of either
AnimateDone ==
    /\ \E c \in 1..Len(calls) :
          LET p == prom["umap"][calls[c].run]
          IN  /\ calls[c].st = "awaitAnimate"
              /\ p.st # "pending"
              /\ calls' = Without(calls, c)
              /\ ret' = [from |-> "animate",
                         st |-> IF p.st = "resolved" THEN "done" ELSE "failed",
                         buf |-> "none", value |-> p.value, iterations |-> 0,
                         reloaded |-> calls[c].fetch = Null,
                         fetch |-> calls[c].run]
    /\ UNCHANGED <<changed, index, um, ts, wvars, heap, mem, last, svars>>

\* ------------------------------------------------------ the t-SNE step

TsneInputs == {TsneArgs(30, 500, FALSE), TsneArgs(40, 500, FALSE),
               TsneArgs(30, 501, FALSE), TsneArgs(30, 500, TRUE)}

\* scran.perplexityToNeighbors
perplexityToNeighbors(perplexity) == 3 * perplexity

\* `reneighbor` as compute first sets it, and as it reaches core
TsneReneighborFirst(indexChanged, stored, perplexity) ==
    indexChanged \/ perplexity # stored.perplexity
TsneReneighbor(indexChanged, stored, reloaded, perplexity) ==
    IF reloaded THEN TRUE ELSE TsneReneighborFirst(indexChanged, stored, perplexity)

\* core
TsneCore(args, reneighbor) ==
    LET nn_out == IF reneighbor
                  THEN computeNeighbors(index, perplexityToNeighbors(args.perplexity))
                  ELSE NoNeighbors
    IN  runWithNeighbors("tsne", args, nn_out)

\* compute of the t-SNE step; `changed` is only ever set
TsneCompute(args) ==
    LET ixc == changed["neighbor_index"]
    IN  /\ Usable("tsne")
        /\ IF TsneReneighborFirst(ixc, ts.parameters, args.perplexity)
              \/ args.iterations # ts.parameters.iterations
           THEN /\ CanSend("tsne")
                /\ TsneCore(args, TsneReneighbor(ixc, ts.parameters, ts.reloaded,
                                                 args.perplexity))
                /\ ts' = [parameters |-> args, reloaded |-> FALSE,
                          run |-> NextHandle("tsne")]
                /\ SetChanged("tsne", TRUE)
           ELSE UNCHANGED <<ts, changed, cache, prom, sent, toWorker>>
        /\ last' = Called("tsne", args)
        /\ UNCHANGED <<index, um, fromWorker, alive, wst, calls, ret, heap, mem, svars>>

\* terminate of the t-SNE step
TsneTerminate ==
    /\ Usable("tsne")
    /\ terminateWorker("tsne")
    /\ UNCHANGED <<changed, index, um, ts, calls, ret, heap, mem, last, svars>>

\* unserialize of the t-SNE step: the module's parameters and cache.reloaded
\* are assigned; cache.run is left as it is
TsneUnserialize(parameters) ==
    /\ ts' = [ts EXCEPT !.parameters = parameters, !.reloaded = TRUE]
    /\ last' = Unserialized(parameters)
    /\ UNCHANGED <<changed, index, um, wvars, calls, ret, heap, mem, svars>>

\* what `cache.run.then(...)` of animate gives: a TypeError when cache.run
\* was never assigned, else a promise chained on the run stored there
Thrower == [from |-> "animate", st |-> "thrown", buf |-> "none",
            value |-> NoCoords, iterations |-> 0, reloaded |-> TRUE,
            fetch |-> Null]

\* animate of the t-SNE step: on a reloaded result cache.reloaded is deleted
\* and core sends RUN with the neighbors, its promise is not kept, and the
\* call goes on with cache.run; otherwise RERUN is sent
TsneAnimate ==
    /\ Usable("tsne")
    /\ CanSend("tsne")
    /\ Len(calls) < MaxCalls
    /\ IF ts.reloaded
       THEN /\ TsneCore([ts.parameters EXCEPT !.animate = TRUE], TRUE)
            /\ ts' = [ts EXCEPT !.reloaded = FALSE]
            /\ IF ts.run = Null
               THEN ret' = Thrower /\ UNCHANGED calls
               ELSE /\ calls' = Append(calls, [from |-> "animate",
                                               st |-> "awaitTsne",
                                               run |-> ts.run, fetch |-> Null])
                    /\ UNCHANGED ret
       ELSE /\ sendTask("tsne", Message("tsne", "RERUN"))
            /\ calls' = Append(calls, [from |-> "animate", st |-> "awaitTsne",
                                       run |-> NextHandle("tsne"),
                                       fetch |-> NextHandle("tsne")])
            /\ UNCHANGED <<ts, ret>>
    /\ UNCHANGED <<changed, index, um, fromWorker, alive, wst, heap, mem, last, svars>>

\* the promise animate of the t-SNE step returned settles
TsneAnimateDone ==
    /\ \E c \in 1..Len(calls) :
          LET p == prom["tsne"][calls[c].run]
          IN  /\ calls[c].st = "awaitTsne"
              /\ p.st # "pending"
              /\ calls' = Without(calls, c)
              /\ ret' = [from |-> "animate",
                         st |-> IF p.st = "resolved" THEN "done" ELSE "failed",
                         buf |-> "none", value |-> p.value, iterations |-> 0,
                         reloaded |-> calls[c].fetch = Null,
                         fetch |-> calls[c].run]
    /\ UNCHANGED <<changed, index, um, ts, wvars, heap, mem, last, svars>>

\* ------------------------------------------------ the synchronous steps

\* #parameters as constructed (`{}`): a property is there once assigned
Put(p, key, v) == [k \in DOMAIN p \cup {key} |-> IF k = key THEN v ELSE p[k]]

\* `v !== this.#parameters[key]`
Differs(p, key, v) == key \notin DOMAIN p \/ p[key] # v

\* utils.changedParameters: the two values differ
changedParameters(x, y) == x # y

StepState(parameters, entries) ==
    [parameters |-> parameters, cache |-> entries, touched |-> {}]

Keep(if, p, key, v) == IF if THEN Put(p, key, v) ELSE p

\* -- InputsState
\* entries load_and_cache, block_and_cache and subset_and_cache assign
LoadEntries == {"raw_matrix", "raw_annotations", "multi_block_ids", "genes",
                "gene_types", "readers"}
BlockEntries == {"raw_block_ids"}
SubsetEntries == {"matrix", "block_ids", "annotations"}
RAW_SUBSET_OVERRIDE == "raw_subset_indices"

\* namespace.abbreviate: what identifies the files of a matrix
abbreviate(matrices) == [files |-> matrices]

\* the stage that reloads the matrices
InputsLoads(s, a) ==
    a.matrices # Null
    /\ (~("abbreviated" \in DOMAIN s.parameters)
        \/ changedParameters(abbreviate(a.matrices), s.parameters.abbreviated))

InputsBlocksAlways(s, a) == TRUE
InputsBlocks(s, a) ==
    InputsLoads(s, a) \/ Differs(s.parameters, "sample_factor", a.sample_factor)

InputsSubsetsIgnoringOverride(s, a) ==
    InputsBlocks(s, a)
    \/ ~("subset" \in DOMAIN s.parameters)
    \/ changedParameters(a.subset, s.parameters.subset)
InputsSubsets(s, a) ==
    InputsBlocks(s, a)
    \/ (RAW_SUBSET_OVERRIDE \notin s.cache
        /\ (~("subset" \in DOMAIN s.parameters)
            \/ changedParameters(a.subset, s.parameters.subset)))

\* InputsState.compute; #abbreviated is kept with the parameters
InputsComputed(s, a) ==
    LET load == InputsLoads(s, a)
        block == InputsBlocks(s, a)
        subset == InputsSubsets(s, a)
        entries == (IF load THEN LoadEntries ELSE {})
                     \cup (IF block THEN BlockEntries ELSE {})
                     \cup (IF subset THEN SubsetEntries ELSE {})
    IN  [parameters |->
            Keep(subset, Keep(block, Keep(load, s.parameters, "abbreviated",
                                          abbreviate(a.matrices)),
                              "sample_factor", a.sample_factor),
                 "subset", a.subset),
         cache |-> s.cache \cup entries,
         touched |-> entries,
         changed |-> subset]

\* -- QualityControlState
QcMetricsNotWhenSkipping(s, inputsChanged, a) ==
    ~a.skip /\ (\/ inputsChanged
                \/ Differs(s.parameters, "use_mito_default", a.use_mito_default)
                \/ Differs(s.parameters, "mito_prefix", a.mito_prefix)
                \/ "metrics" \notin s.cache)
QcMetrics(s, inputsChanged, a) ==
    \/ inputsChanged
    \/ Differs(s.parameters, "use_mito_default", a.use_mito_default)
    \/ Differs(s.parameters, "mito_prefix", a.mito_prefix)
    \/ (~a.skip /\ "metrics" \notin s.cache)

QcFiltersIgnoringNmads(s, inputsChanged, a) ==
    \/ QcMetrics(s, inputsChanged, a)
    \/ (~a.skip /\ "filters" \notin s.cache)
QcFilters(s, inputsChanged, a) ==
    \/ QcMetrics(s, inputsChanged, a)
    \/ Differs(s.parameters, "nmads", a.nmads)
    \/ (~a.skip /\ "filters" \notin s.cache)

\* QualityControlState.compute
QcComputed(s, inputsChanged, a) ==
    LET m == QcMetrics(s, inputsChanged, a)
        f == QcFilters(s, inputsChanged, a)
        made == (IF m /\ ~a.skip THEN {"metrics_buffer", "metrics"} ELSE {})
                  \cup (IF f /\ ~a.skip THEN {"filters"} ELSE {})
        dropped == (IF m /\ a.skip THEN {"metrics"} ELSE {})
                     \cup (IF f /\ a.skip THEN {"filters"} ELSE {})
    IN  [parameters |->
            Put(Keep(f, Keep(m, Keep(m, s.parameters, "use_mito_default",
                                     a.use_mito_default),
                             "mito_prefix", a.mito_prefix),
                     "nmads", a.nmads),
                "skip", a.skip),
         cache |-> (s.cache \ dropped) \cup made,
         touched |-> made \cup (dropped \cap s.cache),
         changed |-> IF Differs(s.parameters, "skip", a.skip) THEN TRUE
                     ELSE IF s.parameters.skip /\ a.skip THEN FALSE
                     ELSE f]

\* -- CellFilteringState
Modalities == {"RNA", "ADT"}
QcOf == [RNA |-> "quality_control", ADT |-> "adt_quality_control"]
PcaOf == [RNA |-> "pca", ADT |-> "adt_pca"]

\* the checks of the upstream steps in CellFilteringState.compute
FilterUpstreamInputsOnly(flags, valid) == flags["inputs"]
FilterUpstream(flags, valid) ==
    flags["inputs"] \/ \E m \in valid : flags[QcOf[m]]

\* CellFilteringState.compute with #filter_matrix and #filter_block
FilterComputed(s, flags, valid, block) ==
    LET ch == FilterUpstream(flags, valid)
        made == {"discard_buffer", "matrix"}
                  \cup (IF block THEN {"block_buffer"} ELSE {})
        dropped == IF block THEN {} ELSE {"block_buffer"}
    IN  [parameters |-> s.parameters,
         cache |-> IF ch THEN (s.cache \ dropped) \cup made ELSE s.cache,
         touched |-> IF ch THEN made \cup (dropped \cap s.cache) ELSE {},
         changed |-> ch]

\* -- NormalizationState
NormUpstream(flags) == flags["quality_control"] \/ flags["cell_filtering"]

\* NormalizationState.compute with #raw_compute
NormComputed(s, flags) ==
    LET ch == NormUpstream(flags)
        made == {"buffer", "matrix"}
    IN  [parameters |-> s.parameters,
         cache |-> IF ch THEN s.cache \cup made ELSE s.cache,
         touched |-> IF ch THEN made ELSE {},
         changed |-> ch]

\* -- CombineEmbeddingsState
CombineUpstream(flags) == \E m \in Modalities : flags[PcaOf[m]]

\* CombineEmbeddingsState.compute
CombineComputed(s, flags, valid, a) ==
    LET ch == CombineUpstream(flags)
        needs_combining == Cardinality(valid) > 1
        again == \/ ch
                 \/ Differs(s.parameters, "approximate", a.approximate)
                 \/ ~("weights" \in DOMAIN s.parameters)
                 \/ changedParameters(a.weights, s.parameters.weights)
        made == IF (needs_combining /\ again) \/ (~needs_combining /\ ch)
                THEN {"combined_buffer"} ELSE {}
    IN  [parameters |-> Put(Put(s.parameters, "weights", a.weights),
                            "approximate", a.approximate),
         cache |-> s.cache \cup made,
         touched |-> made,
         changed |-> IF needs_combining THEN again ELSE ch]

\* -- ChooseClusteringState
\* ChooseClusteringState.compute
ChooseComputed(s, flags, a) ==
    [parameters |-> Put(s.parameters, "method", a.method),
     cache |-> s.cache,
     touched |-> {},
     changed |->
        IF ~Differs(s.parameters, "method", a.method)
        THEN IF a.method = "snn_graph" THEN flags["snn_graph_cluster"]
             ELSE IF a.method = "kmeans" THEN flags["kmeans_cluster"]
             ELSE TRUE
        ELSE TRUE]

\* ------------------------------------------- one step, computed by hand

NoArgs == NoFields

InputsInputs == {[matrices |-> m, sample_factor |-> f, subset |-> u] :
                    m \in {Null, 1, 2}, f \in {Null, 1}, u \in {Null, 1}}
QcInputs == {[skip |-> FALSE, use_mito_default |-> TRUE, mito_prefix |-> "mt-", nmads |-> 3],
             [skip |-> TRUE, use_mito_default |-> TRUE, mito_prefix |-> "mt-", nmads |-> 3],
             [skip |-> FALSE, use_mito_default |-> FALSE, mito_prefix |-> "mt-", nmads |-> 3],
             [skip |-> FALSE, use_mito_default |-> TRUE, mito_prefix |-> "MT-", nmads |-> 3],
             [skip |-> FALSE, use_mito_default |-> TRUE, mito_prefix |-> "mt-", nmads |-> 4]}
CombineInputs == {[weights |-> w, approximate |-> x] :
                     w \in {Null, 1, 2}, x \in BOOLEAN}
ChooseInputs == {[method |-> "kmeans"], [method |-> "snn_graph"]}

\* the result of a compute takes the place of the step's state
Computed(step, r, a) ==
    /\ st' = [st EXCEPT ![step] = [parameters |-> r.parameters,
                                   cache |-> r.cache, touched |-> r.touched]]
    /\ SetChanged(step, r.changed)
    /\ last' = Called(step, a)
    /\ UNCHANGED <<index, um, ts, wvars, calls, ret, heap, mem>>

InputsCompute(a) ==
    /\ a.matrices = Null => "raw_matrix" \in st["inputs"].cache
    /\ Computed("inputs", InputsComputed(st["inputs"], a), a)

QcCompute(a) ==
    Computed("quality_control",
             QcComputed(st["quality_control"], changed["inputs"], a), a)

FilterCompute ==
    Computed("cell_filtering",
             FilterComputed(st["cell_filtering"], changed, upstream.qc,
                            upstream.block), NoArgs)

NormCompute ==
    Computed("normalization", NormComputed(st["normalization"], changed), NoArgs)

CombineCompute(a) ==
    Computed("combine_embeddings",
             CombineComputed(st["combine_embeddings"], changed, upstream.pca, a),
             a)

ChooseCompute(a) ==
    Computed("choose_clustering",
             ChooseComputed(st["choose_clustering"], changed, a), a)

\* an upstream step computes: its flag, and with a set flag possibly another
\* set of valid modalities or another blocking
UpstreamShapes == [qc : {{"RNA"}, Modalities},
                   pca : {{"RNA"}, {"ADT"}, Modalities},
                   block : BOOLEAN]

Turned(u, v) ==
    {QcOf[m] : m \in (u.qc \ v.qc) \cup (v.qc \ u.qc)}
      \cup {PcaOf[m] : m \in (u.pca \ v.pca) \cup (v.pca \ u.pca)}
      \cup (IF u.block # v.block THEN {"inputs"} ELSE {})

UpstreamCompute(s, b, v) ==
    /\ s \in UpstreamOf(unit) \ {"neighbor_index"}
    /\ Turned(upstream, v) \subseteq (IF b THEN {s} ELSE {})
    /\ upstream' = v
    /\ SetChanged(s, b)
    /\ UNCHANGED <<index, um, ts, wvars, calls, ret, heap, mem, last, unit, st>>

\* the states unserialize of a step hands to its constructor, with the
\* parameters found in the file
ReloadedStates(step) ==
    CASE step = "inputs" ->
            {[args |-> [matrices |-> Null, sample_factor |-> f, subset |-> u],
              state |-> StepState([sample_factor |-> f, subset |-> u],
                                  LoadEntries \cup BlockEntries
                                    \cup SubsetEntries \cup o)] :
                f \in {Null, 1}, u \in {Null, 1},
                o \in {{}, {RAW_SUBSET_OVERRIDE}}}
      [] step = "quality_control" ->
            {[args |-> a, state |-> StepState(a, {"metrics", "filters"})] :
                a \in QcInputs}
              \cup {[args |-> a, state |-> StepState(a, {})] :
                      a \in {x \in QcInputs : x.skip}}
      [] step = "cell_filtering" ->
            {[args |-> NoArgs, state |-> StepState(NoFields, {"discard_buffer"})]}
      [] step = "combine_embeddings" ->
            {[args |-> a, state |-> StepState(a, {"combined_buffer"})] :
                a \in CombineInputs}
      [] step = "choose_clustering" ->
            {[args |-> a, state |-> StepState(a, {})] : a \in ChooseInputs}
      [] OTHER -> {}

\* ------------------------------------------------ analysis.js: drivers

MaxRuns == 2

\* the calls of compute in runAnalysis, of serialize in saveAnalysis and of
\* unserialize in loadAnalysis, in the order of the code
RunOrderIndexLate ==
    <<"inputs", "quality_control", "adt_quality_control", "cell_filtering",
      "normalization", "adt_normalization", "feature_selection", "pca",
      "adt_pca", "combine_embeddings", "batch_correction", "tsne", "umap",
      "neighbor_index", "kmeans_cluster", "snn_graph_cluster",
      "choose_clustering", "marker_detection", "cell_labelling",
      "custom_selections">>
RunOrder ==
    <<"inputs", "quality_control", "adt_quality_control", "cell_filtering",
      "normalization", "adt_normalization", "feature_selection", "pca",
      "adt_pca", "combine_embeddings", "batch_correction", "neighbor_index",
      "tsne", "umap", "kmeans_cluster", "snn_graph_cluster",
      "choose_clustering", "marker_detection", "cell_labelling",
      "custom_selections">>
SaveOrder ==
    <<"inputs", "quality_control", "adt_quality_control", "cell_filtering",
      "normalization", "adt_normalization", "feature_selection", "pca",
      "adt_pca", "combine_embeddings", "batch_correction", "neighbor_index",
      "tsne", "umap", "kmeans_cluster", "snn_graph_cluster",
      "choose_clustering", "marker_detection", "cell_labelling",
      "custom_selections">>
LoadOrder ==
    <<"inputs", "quality_control", "adt_quality_control", "cell_filtering",
      "normalization", "adt_normalization", "feature_selection", "pca",
      "adt_pca", "combine_embeddings", "batch_correction", "neighbor_index",
      "tsne", "umap", "kmeans_cluster", "snn_graph_cluster",
      "choose_clustering", "marker_detection", "cell_labelling",
      "custom_selections">>

\* `params` of runAnalysis, with `matrices`
Params(matrices, nmads, method, num_epochs, iterations) ==
    [inputs |-> [matrices |-> matrices, sample_factor |-> Null, subset |-> Null],
     quality_control |-> [skip |-> FALSE, use_mito_default |-> TRUE,
                          mito_prefix |-> "mt-", nmads |-> nmads],
     combine_embeddings |-> [weights |-> Null, approximate |-> TRUE],
     choose_clustering |-> [method |-> method],
     tsne |-> TsneArgs(30, iterations, FALSE),
     umap |-> UmapArgs(15, num_epochs, 1, FALSE)]

RunProfiles == {Params(1, 3, "snn_graph", 500, 500),
                Params(2, 3, "snn_graph", 500, 500),
                Params(Null, 3, "snn_graph", 500, 500),
                Params(Null, 4, "snn_graph", 500, 500),
                Params(Null, 3, "kmeans", 500, 500),
                Params(Null, 3, "snn_graph", 501, 500),
                Params(Null, 3, "snn_graph", 500, 501)}

NoDriver == [op |-> "none", pc |-> 0, done |-> {}, made |-> {},
             params |-> Params(Null, 3, "snn_graph", 500, 500), runs |-> 0,
             wait |-> "none", failed |-> FALSE,
             base |-> [w \in Workers |-> 0], fetch |-> Null,
             callbacks |-> FALSE, thrower |-> "none", log |-> <<>>,
             promises |-> {}, rejected |-> FALSE]

\* what the loaded matrices mean downstream: which modalities they hold and
\* whether the cells fall into blocks
Shape(matrices, sample_factor) ==
    [qc |-> IF matrices = 2 THEN Modalities ELSE {"RNA"},
     pca |-> IF matrices = 2 THEN Modalities ELSE {"RNA"},
     block |-> sample_factor # Null]

\* compute of a step whose file is not at hand: the flag follows the steps
\* it was constructed with
StepCompute(step) ==
    /\ SetChanged(step, \E u \in UpstreamOf(step) : changed[u])
    /\ UNCHANGED <<index, um, ts, wvars, calls, ret, heap, mem, last, svars>>

\* create_analysis after its constructors: both workers are ready
CreateReady ==
    /\ drv.op = "create"
    /\ Ready("tsne") /\ Ready("umap")
    /\ drv' = [drv EXCEPT !.op = "idle"]
    /\ UNCHANGED <<changed, index, um, ts, wvars, calls, ret, heap, mem, last, svars>>

\* runAnalysis is called, with startFun and finishFun or without; `thrower`
\* is the step whose compute will throw in this call, if any. The caller
\* has seen the promises of the call before settle.
RunCall(p, callbacks, thrower) ==
    /\ drv.op = "idle"
    /\ drv.made = Steps
    /\ drv.runs < MaxRuns
    /\ drv.promises = {}
    /\ p.inputs.matrices = Null => "raw_matrix" \in st["inputs"].cache
    /\ drv' = [drv EXCEPT !.op = "run", !.pc = 1, !.done = {}, !.params = p,
                          !.runs = @ + 1, !.failed = FALSE,
                          !.base = [w \in Workers |-> Len(sent[w])],
                          !.callbacks = callbacks, !.thrower = thrower,
                          !.log = <<>>, !.rejected = FALSE]
    /\ UNCHANGED <<changed, index, um, ts, wvars, calls, ret, heap, mem, last, svars>>

\* runAnalysis(state, matrices, params)
RunStart(p) == RunCall(p, FALSE, "none")

\* the steps whose compute hands a promise to asyncQuickFinish
AsyncSteps == {"tsne", "umap", "cell_labelling"}

\* the steps runAnalysis calls quickStart for
QuickStarts == Steps \ {"custom_selections"}

Event(ev, step, payload) == [ev |-> ev, step |-> step, payload |-> payload]

\* quickStart(step)
QuickStart(step) ==
    IF drv.callbacks /\ step \in QuickStarts
    THEN <<Event("start", step, FALSE)>> ELSE <<>>

\* finishFun(step, state[step].summary()) when the step has changed, else
\* finishFun(step)
FinishFun(step, ch) ==
    IF drv.callbacks THEN <<Event("finish", step, ch)>> ELSE <<>>

\* runAnalysis past a compute that has returned: quickFinish, or
\* asyncQuickFinish, which calls summary() at once for a changed step when
\* finishFun is given
AfterCompute(step, ch) ==
    LET computed == drv.log \o QuickStart(step)
                      \o <<Event("compute", step, ch)>>
        d == [drv EXCEPT !.pc = @ + 1, !.done = @ \cup {step}]
    IN  IF step \notin AsyncSteps
        THEN [d EXCEPT !.log = computed \o FinishFun(step, ch)]
        ELSE IF step = "umap" /\ drv.callbacks /\ ch
        THEN [d EXCEPT !.log = computed, !.wait = "summary"]
        ELSE [d EXCEPT !.log = computed, !.promises = @ \cup {step}]

\* runAnalysis rejects at a compute that throws
AfterThrowGoesOn(step) ==
    [drv EXCEPT !.pc = @ + 1, !.done = @ \cup {step},
                !.log = @ \o QuickStart(step)
                          \o <<Event("throw", step, FALSE)>>]
AfterThrow(step) ==
    [drv EXCEPT !.op = "idle", !.wait = "none", !.failed = TRUE,
                !.log = @ \o QuickStart(step)
                          \o <<Event("throw", step, FALSE)>>]

\* runAnalysis: the next compute
RunStep ==
    /\ drv.op = "run" /\ drv.wait = "none"
    /\ drv.pc <= Len(RunOrder)
    /\ RunOrder[drv.pc] # drv.thrower
    /\ LET step == RunOrder[drv.pc]
           p == drv.params
       IN  /\ CASE step = "inputs" ->
                     /\ InputsCompute(p.inputs)
                     /\ upstream' = IF p.inputs.matrices = Null THEN upstream
                                     ELSE Shape(p.inputs.matrices,
                                                p.inputs.sample_factor)
                     /\ UNCHANGED unit
                [] step = "quality_control" ->
                     QcCompute(p.quality_control) /\ UNCHANGED <<unit, upstream>>
                [] step = "cell_filtering" ->
                     FilterCompute /\ UNCHANGED <<unit, upstream>>
                [] step = "normalization" ->
                     NormCompute /\ UNCHANGED <<unit, upstream>>
                [] step = "combine_embeddings" ->
                     CombineCompute(p.combine_embeddings)
                       /\ UNCHANGED <<unit, upstream>>
                [] step = "neighbor_index" ->
                     IndexCompute(changed["batch_correction"])
                [] step = "tsne" -> TsneCompute(p.tsne)
                [] step = "umap" -> UmapCompute(p.umap)
                [] step = "choose_clustering" ->
                     ChooseCompute(p.choose_clustering)
                       /\ UNCHANGED <<unit, upstream>>
                [] OTHER -> StepCompute(step)
           /\ drv' = AfterCompute(step, changed'[step])

\* runAnalysis: the next compute throws; the call ends there
RunThrow ==
    /\ drv.op = "run" /\ drv.wait = "none"
    /\ drv.pc <= Len(RunOrder)
    /\ RunOrder[drv.pc] = drv.thrower
    /\ drv' = AfterThrow(RunOrder[drv.pc])
    /\ UNCHANGED <<changed, index, um, ts, wvars, calls, ret, heap, mem, last, svars>>

\* asyncQuickFinish of the UMAP step: state.umap.summary() is called
RunSummary ==
    /\ drv.op = "run" /\ drv.wait = "summary"
    /\ UmapSummary
    /\ drv' = [drv EXCEPT !.wait = "none", !.promises = @ \cup {"umap"}]

\* runAnalysis after the last compute: `await Promise.all(promises)`
RunWait ==
    /\ drv.op = "run" /\ drv.wait = "none"
    /\ drv.pc = Len(RunOrder) + 1
    /\ drv' = [drv EXCEPT !.wait = "run"]
    /\ UNCHANGED <<changed, index, um, ts, wvars, calls, ret, heap, mem, last, svars>>

\* the promise compute of the UMAP step returned: this.#run, or one that
\* is resolved already
Returned == IF changed["umap"] THEN um.run ELSE Null

\* the promise compute of TsneState returns, as that of UmapState
TsneReturned ==
    IF changed["tsne"] /\ ts.run # Null THEN prom["tsne"][ts.run].st
    ELSE "resolved"

\* the promise summary() of the UMAP step returned to asyncQuickFinish
SummaryPromise ==
    IF \E c \in 1..Len(calls) : calls[c].from = "summary" THEN "pending"
    ELSE IF ret.from = "summary" /\ ret.st = "done" THEN "resolved"
    ELSE "rejected"

\* the state of the promise asyncQuickFinish has pushed for a step, leaving
\* out its last link (the call of finishFun)
PushedResolved(step) == "resolved"
Pushed(step) ==
    CASE step = "umap" ->
            IF drv.callbacks /\ changed["umap"] THEN SummaryPromise
            ELSE Awaited(Returned)
      [] step = "tsne" -> TsneReturned
      [] OTHER -> "resolved"

\* a promise pushed by asyncQuickFinish settles; when it resolves, finishFun
\* is called if there is one. This may come after runAnalysis has rejected.
RunSettle ==
    /\ \E step \in drv.promises :
          /\ Pushed(step) # "pending"
          /\ drv' = [drv EXCEPT
                        !.promises = @ \ {step},
                        !.rejected = @ \/ Pushed(step) = "rejected",
                        !.log = IF Pushed(step) = "resolved"
                                THEN @ \o FinishFun(step, changed[step])
                                ELSE @]
    /\ UNCHANGED <<changed, index, um, ts, wvars, calls, ret, heap, mem, last, svars>>

\* `await Promise.all(promises)` ends: with the first rejection, or when
\* every promise has resolved
RunEnd ==
    /\ drv.op = "run" /\ drv.wait = "run"
    /\ drv.rejected \/ drv.promises = {}
    /\ drv' = [drv EXCEPT !.op = "idle", !.wait = "none",
                          !.failed = drv.rejected,
                          !.log = @ \o <<Event(IF drv.rejected THEN "reject"
                                               ELSE "resolve", "none", FALSE)>>]
    /\ UNCHANGED <<changed, index, um, ts, wvars, calls, ret, heap, mem, last, svars>>

\* saveAnalysis is called
SaveStart ==
    /\ drv.op = "idle"
    /\ drv.made = Steps
    /\ drv.runs > 0
    /\ drv' = [drv EXCEPT !.op = "save", !.pc = 1, !.done = {},
                          !.failed = FALSE]
    /\ UNCHANGED <<changed, index, um, ts, wvars, calls, ret, heap, mem, last, svars>>

Saved(step) == [drv EXCEPT !.pc = @ + 1, !.done = @ \cup {step}, !.wait = "none"]
Thrown == [drv EXCEPT !.op = "idle", !.wait = "none", !.failed = TRUE]

\* saveAnalysis: the next serialize; those of the embedding steps are
\* awaited
SaveStep ==
    /\ drv.op = "save" /\ drv.wait = "none"
    /\ drv.pc <= Len(SaveOrder)
    /\ LET step == SaveOrder[drv.pc]
       IN  CASE step = "umap" ->
                  /\ UmapSerialize
                  /\ drv' = [drv EXCEPT !.wait = "umap"]
             [] step = "tsne" ->
                  /\ Usable("tsne")
                  /\ drv' = IF ts.reloaded THEN Saved(step)
                            ELSE [drv EXCEPT !.wait = "tsne_run"]
                  /\ UNCHANGED <<changed, index, um, ts, wvars, calls, ret,
                                 heap, mem, last, svars>>
             [] OTHER ->
                  /\ drv' = Saved(step)
                  /\ UNCHANGED <<changed, index, um, ts, wvars, calls, ret,
                                 heap, mem, last, svars>>

\* fetch_results of the t-SNE step after `await cache.run`
SaveTsneFetch ==
    /\ drv.op = "save" /\ drv.wait = "tsne_run"
    /\ prom["tsne"][ts.run].st # "pending"
    /\ IF prom["tsne"][ts.run].st = "resolved"
       THEN /\ CanSend("tsne")
            /\ sendTask("tsne", Message("tsne", "FETCH"))
            /\ drv' = [drv EXCEPT !.wait = "tsne_fetch",
                                  !.fetch = NextHandle("tsne")]
       ELSE /\ drv' = Thrown
            /\ UNCHANGED <<cache, prom, sent, toWorker>>
    /\ UNCHANGED <<changed, index, um, ts, fromWorker, alive, wst, calls, ret,
                   heap, mem, last, svars>>

\* the awaited serialize of an embedding step has written its results, or
\* has thrown
SaveResume ==
    /\ drv.op = "save"
    /\ \/ /\ drv.wait = "tsne_fetch"
          /\ prom["tsne"][drv.fetch].st # "pending"
          /\ drv' = IF prom["tsne"][drv.fetch].st = "resolved"
                    THEN Saved("tsne") ELSE Thrown
       \/ /\ drv.wait = "umap"
          /\ calls = <<>>
          /\ drv' = IF ret.st = "done" THEN Saved("umap") ELSE Thrown
    /\ UNCHANGED <<changed, index, um, ts, wvars, calls, ret, heap, mem, last, svars>>

SaveEnd ==
    /\ drv.op = "save" /\ drv.wait = "none"
    /\ drv.pc = Len(SaveOrder) + 1
    /\ drv' = [drv EXCEPT !.op = "idle"]
    /\ UNCHANGED <<changed, index, um, ts, wvars, calls, ret, heap, mem, last, svars>>

\* initializeWorker: the callback is registered and INIT is sent
initializeWorker(w) == sendTask(w, Message(w, "INIT"))

\* the constructor of NormalizationState throws unless it is given a
\* QualityControlState and a CellFilteringState
NormConstructorThrows(given) ==
    ~({"quality_control", "cell_filtering"} \subseteq given)

\* unserialize of normalization.js: `new NormalizationState(qc)`
NormUnserializeGives == {"quality_control"}

\* what the state file of loadAnalysis holds for a step
FileStates(step) ==
    IF step = "umap" \/ step = "tsne" THEN {[args |-> NoArgs, state |-> StepState(NoFields, {})]}
    ELSE IF ReloadedStates(step) = {}
    THEN {[args |-> NoArgs, state |-> StepState(NoFields, {})]}
    ELSE ReloadedStates(step)

\* loadAnalysis: the next unserialize; after the last one the states are
\* returned
LoadStep ==
    /\ drv.op = "load"
    /\ drv.pc <= Len(LoadOrder)
    /\ LET step == LoadOrder[drv.pc]
       IN  IF step = "normalization"
              /\ NormConstructorThrows(NormUnserializeGives \cap drv.made)
           THEN /\ drv' = Thrown
                /\ UNCHANGED <<changed, index, um, ts, wvars, calls, ret, heap, mem,
                               last, svars>>
           ELSE /\ drv' = [drv EXCEPT !.pc = @ + 1, !.made = @ \cup {step},
                                      !.op = IF drv.pc = Len(LoadOrder)
                                             THEN "idle" ELSE @]
                /\ \E r \in FileStates(step) :
                      st' = [st EXCEPT ![step] = r.state]
                /\ IF step = "umap"
                   THEN /\ \E parameters \in UmapInputs :
                             um' = [parameters |-> parameters,
                                    reloaded |-> Reloaded, run |-> Null]
                        /\ mem' = mem
                        /\ heap' = [file |-> FileCoords, out |-> NoCoords]
                        /\ initializeWorker("umap")
                        /\ UNCHANGED ts
                   ELSE IF step = "tsne"
                   THEN /\ \E parameters \in TsneInputs :
                             ts' = [parameters |-> parameters,
                                    reloaded |-> TRUE, run |-> Null]
                        /\ initializeWorker("tsne")
                        /\ UNCHANGED <<um, heap, mem>>
                   ELSE UNCHANGED <<um, ts, heap, mem, cache, prom, sent, toWorker>>
                /\ UNCHANGED <<changed, index, fromWorker, alive, wst, calls,
                               ret, last, unit, upstream>>

\* ------------------------------------------------------ initial states

\* a state object after construction: the INIT task of initializeWorker is
\* on its way to the worker
InitWorkers ==
    /\ cache = [w \in Workers |-> [counter |-> 1, promises |-> (0 :> 1)]]
    /\ prom = [w \in Workers |-> <<Pending>>]
    /\ sent = [w \in Workers |-> <<[cmd |-> "INIT", id |-> 0]>>]
    /\ toWorker = [w \in Workers |-> <<Message(w, "INIT")>>]
    /\ fromWorker = [w \in Workers |-> <<>>]
    /\ alive = [w \in Workers |-> TRUE]
    /\ wst = [w \in Workers |-> [nn |-> NoNeighbors, coords |-> NoCoords]]

UmapFresh == [parameters |-> NoParams, reloaded |-> NotReloaded, run |-> Null]
TsneFresh == [parameters |-> TsneNoParams, reloaded |-> FALSE, run |-> Null]

\* ------------------------------------------------ buffers on the Wasm heap

MaxBufs == 16
MaxComputes == 2

\* the entries of InputsState's cache that hold buffers, and the local
\* variables of load_datasets, bind_datasets, bind_single_modality,
\* block_and_cache and subset_and_cache that do
InputSlots == {"raw_matrix", "matrix", "multi_block_ids", "raw_block_ids",
               "block_ids"}
LocalSlots == {"datasets1", "datasets2", "output", "merged", "blocks",
               "new_matrix", "new_block_ids"}
\* the buffers of the QC and PCA states, of CellFilteringState and of
\* CombineEmbeddingsState
QcSlot == [RNA |-> "qc_RNA", ADT |-> "qc_ADT"]
PcaSlot == [RNA |-> "pcs_RNA", ADT |-> "pcs_ADT"]
ViewSlots == {"qc_RNA", "qc_ADT", "discard_buffer", "pcs_RNA", "pcs_ADT",
              "combined_buffer"}
CacheSlots == InputSlots \cup ViewSlots
Slots == CacheSlots \cup LocalSlots

\* what a variable refers to: the buffers (a MultiMatrix has one for each
\* modality added), and whether it is a view on another owner's buffer
NoRef == [bufs |-> {}, view |-> FALSE]
NoFile == [saved |-> FALSE, loaded |-> FALSE]

NoMem == [live |-> {}, refs |-> [s \in Slots |-> NoRef],
          made |-> {}, stage |-> {}, n |-> 0,
          inp |-> [abbreviated |-> 0, sample_factor |-> Null, subset |-> Null],
          err |-> FALSE, fail |-> "none", op |-> "none",
          flags |-> {}, valid |-> [qc |-> {}, pca |-> {}],
          par |-> [weights |-> "none", approximate |-> TRUE],
          dims |-> 0, file |-> NoFile, read |-> "none", due |-> {},
          ran |-> {}]

\* the buffers some variable still refers to
Referenced(m) == UNION {m.refs[s].bufs : s \in Slots}
Unused(m) == (1..MaxBufs) \ (m.live \cup Referenced(m))

\* an allocation in scran.js, its result assigned to (or added to) `slot`
Alloc(m, slot) ==
    LET least(free) == CHOOSE i \in free : \A j \in free : i <= j
        at(x, b) == [x EXCEPT !.live = @ \cup {b},
                              !.made = @ \cup {b},
                              !.stage = @ \cup {b},
                              !.refs[slot] = [bufs |-> @.bufs \cup {b},
                                              view |-> FALSE]]
    IN  CHOOSE r \in UNION {{at(x, b) : b \in {least(free)}} :
                                <<x, free>> \in {<<m, Unused(m)>>}} : TRUE

\* utils.freeCache(x): frees what x owns; x still refers to it
freeCache(m, slot) ==
    LET freed(x) == IF x.refs[slot].view THEN x
                    ELSE [x EXCEPT !.live = @ \ x.refs[slot].bufs]
    IN  CHOOSE r \in {freed(x) : x \in {m}} : TRUE

\* utils.freeCache(x) for a local variable, which then goes out of scope
Release(m, slot) == [freeCache(m, slot) EXCEPT !.refs[slot] = NoRef]

\* `to = from`, or `to.add(key, from)`, for a local `from`
Move(m, from, to) ==
    LET moved(x) == [x EXCEPT !.refs[to] = x.refs[from],
                              !.refs[from] = NoRef]
    IN  CHOOSE r \in {moved(x) : x \in {m}} : TRUE
Add(m, from, to) ==
    LET added(x) ==
            [x EXCEPT !.refs[to] = [bufs |-> @.bufs \cup x.refs[from].bufs,
                                    view |-> FALSE],
                      !.refs[from] = NoRef]
    IN  CHOOSE r \in {added(x) : x \in {m}} : TRUE

\* `to = from.view()`
View(m, from, to) ==
    LET viewed(x) == [x EXCEPT !.refs[to] = [bufs |-> x.refs[from].bufs,
                                             view |-> TRUE]]
    IN  CHOOSE r \in {viewed(x) : x \in {m}} : TRUE

Throw(m, f) == [m EXCEPT !.err = TRUE, !.fail = f]

\* where InputsState.compute can fail: a dataset that does not load, a
\* modality without gene annotations or without a common feature type, a
\* failure past cbindWithNames, in combineArrayCollections, past createBlock
\* or in guessFeatures; a sample factor of the wrong length; a subset field
\* that does not exist, failures in dropUnusedBlock, clone and subsetColumns
LoadFails == {"load1", "load2", "genes1", "genes2", "types1", "types2",
              "names1", "names2", "annos", "batch", "guess"}
BindFails == LoadFails \ {"load1", "guess"}
BlockFails == {"factor"}
SubsetFails == {"field", "dropped", "clone", "columns1", "columns2"}
Fails == {"none"} \cup LoadFails \cup BlockFails \cup SubsetFails

\* bind_single_modality for the i-th modality
BindSingleLeaks(m, i, f) ==
    IF (i = 1 /\ f \in {"genes1", "types1"}) \/ (i = 2 /\ f \in {"genes2", "types2"})
    THEN Throw(m, f)
    ELSE LET merged == Alloc(m, "merged")
         IN  IF (i = 1 /\ f = "names1") \/ (i = 2 /\ f = "names2")
             THEN Throw([merged EXCEPT !.refs["merged"] = NoRef], f)
             ELSE merged
BindSingle(m, i, f) ==
    IF (i = 1 /\ f \in {"genes1", "types1"}) \/ (i = 2 /\ f \in {"genes2", "types2"})
    THEN Throw(m, f)
    ELSE LET merged == Alloc(m, "merged")
         IN  IF (i = 1 /\ f = "names1") \/ (i = 2 /\ f = "names2")
             THEN Throw(Release(merged, "merged"), f)
             ELSE merged

\* bind_datasets, for datasets with two modalities
BindDatasets(m, f) ==
    LET caught(x) == Release(Release(x, "blocks"), "output")
        rest(a2) == IF f = "annos" THEN Throw(caught(a2), f)
                    ELSE IF f = "batch"
                    THEN Throw(caught(Alloc(a2, "blocks")), f)
                    ELSE Alloc(a2, "blocks")
        second(b2) == IF b2.err THEN caught(b2)
                      ELSE rest(Add(b2, "merged", "output"))
        first(b1) ==
            IF b1.err THEN caught(b1)
            ELSE CHOOSE r \in {second(b2) : b2 \in
                     {BindSingle(Add(b1, "merged", "output"), 2, f)}} : TRUE
    IN  CHOOSE r \in {first(b1) : b1 \in {BindSingle(m, 1, f)}} : TRUE

\* load_datasets for n datasets
LoadDatasets(m, n, f) ==
    LET d1 == Alloc(m, "datasets1")
        d2 == IF n = 2 THEN Alloc(d1, "datasets2") ELSE d1
        freed(x) == Release(Release(x, "datasets1"), "datasets2")
    IN  IF f = "load1" THEN Throw(m, f)
        ELSE IF n = 2 /\ f = "load2" THEN Throw(freed(d1), f)
        ELSE IF n = 1 THEN Move(d2, "datasets1", "output")
        ELSE freed(BindDatasets(d2, f))

\* load_and_cache
LoadAndCache(m, n, f) ==
    LET m0 == freeCache(freeCache(freeCache(m, "raw_matrix"), "matrix"),
                        "multi_block_ids")
        kept(res) == Move(Move(res, "output", "raw_matrix"),
                          "blocks", "multi_block_ids")
        cached(res) == IF res.err THEN res
                       ELSE IF f = "guess" THEN Throw(kept(res), f)
                       ELSE kept(res)
    IN  CHOOSE r \in {cached(res) : res \in {LoadDatasets(m0, n, f)}} : TRUE

\* block_and_cache
BlockAndCache(m, sample_factor, f) ==
    LET made(m0) ==
            IF sample_factor # Null
            THEN IF f = "factor" THEN Throw(m0, f)
                 ELSE Move(Alloc(m0, "blocks"), "blocks", "raw_block_ids")
            ELSE IF m0.refs["multi_block_ids"] # NoRef
                 THEN View(m0, "multi_block_ids", "raw_block_ids")
                 ELSE [m0 EXCEPT !.refs["raw_block_ids"] = NoRef]
    IN  CHOOSE r \in {made(m0) : m0 \in {freeCache(m, "raw_block_ids")}} : TRUE

\* subset_and_cache
SubsetAndCache(m, subset, f) ==
    LET caught(x) == Release(Release(x, "new_matrix"), "new_block_ids")
        commit(x) == Move(Move(x, "new_block_ids", "block_ids"),
                          "new_matrix", "matrix")
        blocked(m0) == m0.refs["raw_block_ids"] # NoRef
        \* keep === null
        viewed(cloned) ==
            IF blocked(cloned)
            THEN View(cloned, "raw_block_ids", "new_block_ids")
            ELSE cloned
        \* a subset is given
        sub(m0) == IF blocked(m0) THEN Alloc(m0, "new_block_ids") ELSE m0
        col1(m0) == Alloc(sub(m0), "new_matrix")
        col2(m0) == Alloc(col1(m0), "new_matrix")
        made(m0) ==
            IF subset = Null
            THEN IF f = "clone" THEN Throw(caught(m0), f)
                 ELSE commit(CHOOSE r \in {viewed(cloned) : cloned \in
                                 {Alloc(m0, "new_matrix")}} : TRUE)
            ELSE IF f = "field" THEN Throw(m0, f)
            ELSE IF f = "dropped" THEN Throw(caught(sub(m0)), f)
            ELSE IF f = "columns1" THEN Throw(caught(sub(m0)), f)
            ELSE IF f = "columns2" THEN Throw(caught(col1(m0)), f)
            ELSE commit(col2(m0))
    IN  CHOOSE r \in {made(m0) : m0 \in
            {freeCache(freeCache(m, "matrix"), "block_ids")}} : TRUE

\* the matrices given to InputsState.compute: their abbreviation, and how
\* many datasets they are
InputsMatrices == {1, 2, 3}
NDatasets(k) == IF k = 1 THEN 1 ELSE 2

\* whether a failure can happen in a call
CanFail(f, a, load, block, subset) ==
    \/ f = "none"
    \/ /\ load
       /\ f \in LoadFails
       /\ f \in BindFails => NDatasets(a.matrices) = 2
    \/ /\ block /\ f = "factor" /\ a.sample_factor # Null
    \/ /\ subset /\ f \in {"field", "columns1", "columns2"} /\ a.subset # Null
    \/ /\ subset /\ f = "dropped" /\ a.subset # Null
       /\ (a.sample_factor # Null \/ NDatasets(a.matrices) = 2)
    \/ /\ subset /\ f = "clone" /\ a.subset = Null

\* the stages of InputsState.compute one after the other; a stage that
\* throws ends the call
InputsStages(m, a, f) ==
    LET fresh == [m EXCEPT !.made = {}, !.stage = {}, !.err = FALSE,
                           !.fail = "none", !.op = "compute", !.n = @ + 1,
                           !.read = "none"]
        \* the parameters are updated by a stage that did not throw
        done(r, field, value) ==
            IF r.err THEN r ELSE [r EXCEPT !.inp[field] = value]
        load == a.matrices # m.inp.abbreviated
        loaded(x) ==
            IF load
            THEN CHOOSE y \in {done(r, "abbreviated", a.matrices) : r \in
                     {LoadAndCache(x, NDatasets(a.matrices), f)}} : TRUE
            ELSE x
        block == load \/ m.inp.sample_factor # a.sample_factor
        blocked(x) ==
            IF block /\ ~x.err
            THEN CHOOSE y \in {done(r, "sample_factor", a.sample_factor) : r \in
                     {BlockAndCache([x EXCEPT !.stage = {}],
                                    a.sample_factor, f)}} : TRUE
            ELSE x
        subset == block \/ m.inp.subset # a.subset
        subsetted(x) ==
            IF subset /\ ~x.err
            THEN CHOOSE y \in {done(r, "subset", a.subset) : r \in
                     {SubsetAndCache([x EXCEPT !.stage = {}],
                                     a.subset, f)}} : TRUE
            ELSE x
    IN  CHOOSE r \in {subsetted(z) : z \in
            {blocked(y) : y \in {loaded(x) : x \in {fresh}}}} : TRUE

\* InputsState.compute(matrices, sample_factor, subset), which may fail
InputsBuffers(a, f) ==
    LET load == a.matrices # mem.inp.abbreviated
        block == load \/ mem.inp.sample_factor # a.sample_factor
        subset == block \/ mem.inp.subset # a.subset
    IN  /\ CanFail(f, a, load, block, subset)
        /\ mem.n < MaxComputes
        /\ Cardinality(Unused(mem)) >= 9
        /\ mem' = InputsStages(mem, a, f)
        /\ UNCHANGED <<changed, index, um, ts, wvars, calls, ret, heap, last,
                       svars, drv>>

\* InputsState.free
InputsFree ==
    /\ mem.op # "free"
    /\ mem' = [freeCache(freeCache(freeCache(freeCache(freeCache(mem,
                  "matrix"), "raw_matrix"), "block_ids"), "raw_block_ids"),
                  "multi_block_ids") EXCEPT !.op = "free", !.err = FALSE,
                                            !.fail = "none", !.read = "none"]
    /\ UNCHANGED <<changed, index, um, ts, wvars, calls, ret, heap, last,
                   svars, drv>>

\* what a read through a variable yields: the buffer's data while the
\* buffer is allocated; a view does not know that its owner was freed
ReadOutcomes(m, slot) ==
    IF m.refs[slot].bufs \subseteq m.live THEN {"valid"}
    ELSE {"stale", "error"}

\* fetchBlock() and a read of the array it returns
ReadBlock ==
    /\ mem.refs["block_ids"] # NoRef
    /\ \E r \in ReadOutcomes(mem, "block_ids") :
          mem' = [mem EXCEPT !.read = r]
    /\ UNCHANGED <<changed, index, um, ts, wvars, calls, ret, heap, last,
                   svars, drv>>

\* ------------------------------------------------ views on the buffers
\* of the steps upstream

\* the modalities of a dataset: RNA, with or without ADT
Datasets == {{"RNA"}, Modalities}
\* the number of PCs of the PCA states
PcaDims == [RNA |-> 2, ADT |-> 1]
\* the weights given to CombineEmbeddingsState.compute: null, or those of
\* the modalities with a positive weight
Weights == {"none", "both", "rna", "adt"}
Positive == [none |-> Modalities, both |-> Modalities, rna |-> {"RNA"},
             adt |-> {"ADT"}]

\* Where a buffer lies on the heap is of no account: a buffer is given the
\* number of the first variable that refers to it (each of these variables
\* refers to one buffer at most)
SlotOrder == <<"qc_RNA", "qc_ADT", "pcs_RNA", "pcs_ADT", "discard_buffer",
               "combined_buffer">>
Place(m, b) ==
    CHOOSE i \in 1..(Len(SlotOrder) + 1) :
        /\ i <= Len(SlotOrder) => b \in m.refs[SlotOrder[i]].bufs
        /\ \A j \in 1..(i - 1) : b \notin m.refs[SlotOrder[j]].bufs
Renumbered(m) ==
    LET moved(x) ==
            [x EXCEPT !.live = {Place(x, b) : b \in x.live},
                      !.refs = [s \in Slots |->
                                  [bufs |-> {Place(x, b) : b \in x.refs[s].bufs},
                                   view |-> x.refs[s].view]],
                      !.made = {}, !.stage = {}]
    IN  CHOOSE r \in {moved(x) : x \in {m}} : TRUE

\* utils.allocateCachedArray: the buffer in the cache is used again if it is
\* owned and has the size asked for
allocateCachedArray(m, slot, sameSize) ==
    IF /\ m.refs[slot] # NoRef /\ ~m.refs[slot].view
       /\ m.refs[slot].bufs \subseteq m.live /\ sameSize
    THEN m
    ELSE Alloc([freeCache(m, slot) EXCEPT !.refs[slot] = NoRef], slot)

\* a step is called: what the latest call and the latest read left is
\* forgotten, and so is a file written from an older state
Began(m) ==
    [m EXCEPT !.op = "views", !.err = FALSE, !.fail = "none", !.made = {},
              !.stage = {}, !.read = "none", !.file = NoFile]

Recomputed(m, slot) ==
    Alloc([freeCache(m, slot) EXCEPT !.refs[slot] = NoRef], slot)

\* runAnalysis calls the steps in their order: the steps upstream, then
\* CellFilteringState, then CombineEmbeddingsState (`due` holds those of the
\* two that the call has yet to reach). A call that a step in between makes
\* fail ends there. Nothing is done with an analysis that failed to load.
\* `ran` holds those of the two that built their result since the steps
\* upstream last computed anything anew or were freed.

\* the steps before CellFilteringState and CombineEmbeddingsState compute,
\* for a dataset with the modalities v: the QC filters and the PCs of the
\* modalities in r are computed anew, all of them for another dataset
UpstreamBuffers(v, r) ==
    LET new == v # mem.valid.qc
        qs == IF new THEN v ELSE r
        ps == IF new THEN v ELSE r
        m1 == IF "RNA" \in qs THEN Recomputed(Began(mem), "qc_RNA")
              ELSE Began(mem)
        m2 == IF "ADT" \in qs THEN Recomputed(m1, "qc_ADT") ELSE m1
        m3 == IF "RNA" \in ps THEN Recomputed(m2, "pcs_RNA") ELSE m2
        m4 == IF "ADT" \in ps THEN Recomputed(m3, "pcs_ADT") ELSE m3
        gone == IF new THEN Modalities \ v ELSE {}
    IN  /\ ~mem.err
        /\ r \subseteq v
        /\ new => r = v
        /\ Cardinality(Unused(mem)) >= 4
        /\ mem' = Renumbered([m4 EXCEPT
                     !.valid = [qc |-> v, pca |-> v],
                     !.flags = (IF new THEN {"inputs"} ELSE {})
                                 \cup {QcSlot[x] : x \in qs \cup gone}
                                 \cup {PcaSlot[x] : x \in ps \cup gone},
                     !.due = {"filter", "combine"},
                     !.ran = IF new \/ r # {} THEN {} ELSE @])
        /\ UNCHANGED <<changed, index, um, ts, wvars, calls, ret, heap, last,
                       svars, drv>>

\* free() of a QC or PCA state
UpstreamFree(slot) ==
    /\ ~mem.err
    /\ mem.refs[slot] # NoRef
    /\ \E x \in mem.valid.qc : slot \in {QcSlot[x], PcaSlot[x]}
    /\ mem.refs[slot].bufs \subseteq mem.live
    /\ mem' = Renumbered([freeCache(Began(mem), slot) EXCEPT !.ran = {}])
    /\ UNCHANGED <<changed, index, um, ts, wvars, calls, ret, heap, last,
                   svars, drv>>

\* CellFilteringState.#filter_matrix: the discard vector
FilterMatrix(m) ==
    IF Cardinality(m.valid.qc) > 1
    THEN allocateCachedArray(m, "discard_buffer", TRUE)
    ELSE LET first == QcSlot[CHOOSE x \in m.valid.qc : TRUE]
         IN  View(freeCache(m, "discard_buffer"), first, "discard_buffer")

\* CellFilteringState.compute
FilterBuffers ==
    LET ch == \/ "inputs" \in mem.flags
              \/ \E x \in mem.valid.qc : QcSlot[x] \in mem.flags
        m0 == Began(mem)
    IN  /\ ~mem.err /\ "filter" \in mem.due
        /\ \A x \in mem.valid.qc : mem.refs[QcSlot[x]].bufs \subseteq mem.live
        /\ Cardinality(Unused(mem)) >= 1
        /\ mem' = Renumbered([IF ch THEN FilterMatrix(m0) ELSE m0
                                EXCEPT !.due = @ \ {"filter"},
                                       !.ran = IF ch THEN @ \cup {"filter"}
                                               ELSE @])
        /\ UNCHANGED <<changed, index, um, ts, wvars, calls, ret, heap, last,
                       svars, drv>>

\* the upstream PCA states CombineEmbeddingsState uses
UsablePcs(valid, weights) ==
    IF Cardinality(valid) > 1 /\ weights # "none"
    THEN valid \cap Positive[weights] ELSE valid

\* CombineEmbeddingsState.createPcsView
createPcsView(m, x) ==
    [View(freeCache(m, "combined_buffer"), PcaSlot[x], "combined_buffer")
        EXCEPT !.dims = PcaDims[x]]

\* CombineEmbeddingsState.compute(weights, approximate)
CombineStages(m, weights, approximate) ==
    LET ch == \E x \in Modalities : PcaSlot[x] \in m.flags
        to_use == m.valid.pca
        needs_combining == Cardinality(to_use) > 1
        again == \/ ch
                 \/ approximate # m.par.approximate
                 \/ weights # m.par.weights
        used == UsablePcs(to_use, weights)
        total == IF used = Modalities THEN PcaDims["RNA"] + PcaDims["ADT"]
                 ELSE 0
        made == IF needs_combining
                THEN IF again
                     THEN IF Cardinality(used) = 1
                          THEN createPcsView(m, CHOOSE x \in used : TRUE)
                          ELSE [allocateCachedArray(m, "combined_buffer",
                                                    m.dims = total)
                                  EXCEPT !.dims = total]
                     ELSE m
                ELSE IF ch
                     THEN createPcsView(m, CHOOSE x \in to_use : TRUE)
                     ELSE m
        built == IF needs_combining THEN again ELSE ch
    IN  [made EXCEPT !.par = [weights |-> weights, approximate |-> approximate],
                     !.ran = IF built THEN @ \cup {"combine"} ELSE @]

CombineBuffers(weights, approximate) ==
    /\ ~mem.err /\ mem.due = {"combine"}
    /\ \A x \in mem.valid.pca : mem.refs[PcaSlot[x]].bufs \subseteq mem.live
    /\ Cardinality(Unused(mem)) >= 1
    /\ mem' = Renumbered([CombineStages(Began(mem), weights, approximate)
                            EXCEPT !.due = {}])
    /\ UNCHANGED <<changed, index, um, ts, wvars, calls, ret, heap, last,
                   svars, drv>>

\* what CellFilteringState.serialize and CombineEmbeddingsState.serialize
\* write, with what the QC and PCA states write: a dataset of the results
\* is there if the buffer is not a view
FilterSerializedTwice(m) == TRUE
FilterSerialized(m) == ~m.refs["discard_buffer"].view
CombineSerialized(m) == ~m.refs["combined_buffer"].view

\* saveAnalysis, for these steps
SaveBuffers ==
    /\ ~mem.err /\ ~mem.file.saved
    /\ mem.due = {}
    /\ mem.refs["discard_buffer"] # NoRef
    /\ mem.refs["combined_buffer"] # NoRef
    /\ mem' = [mem EXCEPT
                 !.read = "none",
                 !.file = [saved |-> TRUE, loaded |-> FALSE, own |-> TRUE,
                           discards |-> FilterSerialized(mem),
                           combined |-> CombineSerialized(mem),
                           shape |-> mem.dims, ran |-> mem.ran,
                           qc |-> mem.valid.qc, pca |-> mem.valid.pca,
                           weights |-> mem.par.weights,
                           approximate |-> mem.par.approximate]]
    /\ UNCHANGED <<changed, index, um, ts, wvars, calls, ret, heap, last,
                   svars, drv>>

\* files that lack the results of the two steps, whatever was valid when
\* they were written
ForeignFiles ==
    {[saved |-> TRUE, loaded |-> FALSE, own |-> FALSE, discards |-> FALSE,
      combined |-> FALSE, shape |-> 0, ran |-> {}, qc |-> v, pca |-> v,
      weights |-> w,
      approximate |-> TRUE] : v \in Datasets, w \in Weights}

\* unserialize of CellFilteringState, after that of the QC states
FilterUnserialize(m, file) ==
    IF file.discards THEN Alloc(m, "discard_buffer")
    ELSE IF Cardinality(file.qc) # 1 THEN Throw(m, "discards")
    ELSE View(m, QcSlot[CHOOSE x \in file.qc : TRUE], "discard_buffer")

\* unserialize of CombineEmbeddingsState, after that of the PCA states
CombineUnserialize(m, file) ==
    LET p == [m EXCEPT !.par = [weights |-> file.weights,
                                approximate |-> file.approximate]]
        to_use == UsablePcs(file.pca, file.weights)
    IN  IF file.combined
        THEN [Alloc(p, "combined_buffer") EXCEPT !.dims = file.shape]
        ELSE IF Cardinality(to_use) # 1 THEN Throw(p, "combined")
        ELSE createPcsView(p, CHOOSE x \in to_use : TRUE)

\* loadAnalysis, for these steps, into a new analysis: of the file just
\* saved, or in a new session of a file from elsewhere
LoadBuffers(file) ==
    LET m0 == [NoMem EXCEPT !.file = [file EXCEPT !.loaded = TRUE],
                            !.op = "views",
                            !.valid = [qc |-> file.qc, pca |-> file.pca]]
        m1 == Alloc(m0, "qc_RNA")
        m2 == IF "ADT" \in file.qc THEN Alloc(m1, "qc_ADT") ELSE m1
        f == FilterUnserialize(m2, file)
        m3 == Alloc(f, "pcs_RNA")
        m4 == IF "ADT" \in file.pca THEN Alloc(m3, "pcs_ADT") ELSE m3
        c == CombineUnserialize(m4, file)
    IN  /\ file.saved /\ ~file.loaded
        /\ file = mem.file \/ mem = NoMem
        /\ mem' = Renumbered(IF f.err THEN f ELSE c)
        /\ UNCHANGED <<changed, index, um, ts, wvars, calls, ret, heap, last,
                       svars, drv>>

\* a read of the discard vector (CellFilteringState.summary) or of the
\* combined PCs (fetchPCs, by the steps downstream)
ReadView(slot) ==
    /\ ~mem.err
    /\ mem.refs[slot] # NoRef /\ mem.refs[slot].view
    /\ \E r \in ReadOutcomes(mem, slot) :
          mem' = [mem EXCEPT !.read = r]
    /\ UNCHANGED <<changed, index, um, ts, wvars, calls, ret, heap, last,
                   svars, drv>>

NoHeap == [file |-> NoCoords, out |-> NoCoords]

FreshSteps == [s \in Steps |-> StepState(NoFields, {})]
OneModality == [qc |-> {"RNA"}, pca |-> {"RNA"}, block |-> FALSE]

\* new UmapState(index), or UmapState.unserialize(handle, index)
InitUmap ==
    /\ changed = [s \in Steps |-> FALSE]
    /\ drv = NoDriver
    /\ unit = "umap"
    /\ st = FreshSteps
    /\ upstream = OneModality
    /\ index = 0
    /\ calls = <<>>
    /\ ret = NoRet
    /\ ts = TsneFresh
    /\ InitWorkers
    /\ \/ /\ um = UmapFresh
          /\ mem = NoMem
          /\ heap = NoHeap
          /\ last = NoCall
       \/ \E parameters \in UmapInputs :
             /\ um = [parameters |-> parameters, reloaded |-> Reloaded,
                      run |-> Null]
             /\ mem = NoMem
             /\ heap = [file |-> FileCoords, out |-> NoCoords]
             /\ last = Unserialized(parameters)

\* the t-SNE step when its module is loaded, or after unserialize
InitTsne ==
    /\ changed = [s \in Steps |-> FALSE]
    /\ drv = NoDriver
    /\ unit = "tsne"
    /\ st = FreshSteps
    /\ upstream = OneModality
    /\ index = 0
    /\ calls = <<>>
    /\ ret = NoRet
    /\ um = UmapFresh
    /\ mem = NoMem
    /\ heap = NoHeap
    /\ InitWorkers
    /\ \/ /\ ts = TsneFresh
          /\ last = NoCall
       \/ \E parameters \in TsneInputs :
             /\ ts = [parameters |-> parameters, reloaded |-> TRUE, run |-> Null]
             /\ last = Unserialized(parameters)

StepUnits == {"inputs", "quality_control", "cell_filtering", "normalization",
              "combine_embeddings", "choose_clustering", "umap"}

\* one step after construction or unserialize, its upstream steps around it
InitSteps ==
    /\ changed = [s \in Steps |-> FALSE]
    /\ drv = NoDriver
    /\ index = 0
    /\ calls = <<>>
    /\ ret = NoRet
    /\ ts = TsneFresh
    /\ InitWorkers
    /\ unit \in StepUnits
    /\ upstream \in UpstreamShapes
    /\ unit \notin {"cell_filtering", "combine_embeddings"}
          => upstream = OneModality
    /\ unit # "combine_embeddings" => upstream.pca = {"RNA"}
    /\ unit # "cell_filtering" => (upstream.qc = {"RNA"} /\ ~upstream.block)
    /\ \/ /\ st = FreshSteps
          /\ um = UmapFresh
          /\ mem = NoMem
          /\ heap = NoHeap
          /\ last = NoCall
       \/ \E r \in ReloadedStates(unit) :
             /\ st = [FreshSteps EXCEPT ![unit] = r.state]
             /\ um = UmapFresh
             /\ mem = NoMem
             /\ heap = NoHeap
             /\ last = Unserialized(r.args)
       \/ \E parameters \in UmapInputs :
             /\ unit = "umap"
             /\ st = FreshSteps
             /\ um = [parameters |-> parameters, reloaded |-> Reloaded,
                      run |-> Null]
             /\ mem = NoMem
             /\ heap = [file |-> FileCoords, out |-> NoCoords]
             /\ last = Unserialized(parameters)

\* one step computed over and over by hand
NextSteps ==
    \/ /\ \E s \in Steps, b \in BOOLEAN, v \in UpstreamShapes :
                UpstreamCompute(s, b, v)
       /\ UNCHANGED drv
    \/ /\ \E a \in InputsInputs :
                unit = "inputs" /\ InputsCompute(a) /\ UNCHANGED <<unit, upstream>>
       /\ UNCHANGED drv
    \/ /\ \E a \in QcInputs :
                unit = "quality_control" /\ QcCompute(a) /\ UNCHANGED <<unit, upstream>>
       /\ UNCHANGED drv
    \/ unit = "cell_filtering" /\ FilterCompute /\ UNCHANGED <<unit, upstream>> /\ UNCHANGED drv
    \/ unit = "normalization" /\ NormCompute /\ UNCHANGED <<unit, upstream>> /\ UNCHANGED drv
    \/ /\ \E a \in CombineInputs :
                unit = "combine_embeddings" /\ CombineCompute(a)
                  /\ UNCHANGED <<unit, upstream>>
       /\ UNCHANGED drv
    \/ /\ \E a \in ChooseInputs :
                unit = "choose_clustering" /\ ChooseCompute(a)
                  /\ UNCHANGED <<unit, upstream>>
       /\ UNCHANGED drv
    \/ unit = "umap" /\ IndexCompute(TRUE) /\ UNCHANGED drv
    \/ unit = "umap" /\ IndexCompute(FALSE) /\ UNCHANGED drv
    \/ /\ \E args \in UmapInputs : unit = "umap" /\ UmapCompute(args)
       /\ UNCHANGED drv
    \/ unit = "umap" /\ WorkerStep("umap") /\ UNCHANGED drv
    \/ unit = "umap" /\ Callback("umap") /\ UNCHANGED drv

SpecSteps == InitSteps /\ [][NextSteps]_vars

\* a UmapState computed over and over, its worker, and its end
NextUmap ==
    \/ IndexCompute(TRUE) /\ UNCHANGED drv
    \/ IndexCompute(FALSE) /\ UNCHANGED drv
    \/ /\ \E args \in UmapInputs : UmapCompute(args)
       /\ UNCHANGED drv
    \/ UmapFree /\ UNCHANGED drv
    \/ WorkerStep("umap") /\ UNCHANGED drv
    \/ Callback("umap") /\ UNCHANGED drv

SpecUmap == InitUmap /\ [][NextUmap]_vars

\* a UmapState computed and asked for its results
NextFetch ==
    \/ /\ \E args \in UmapInputs : UmapCompute(args)
       /\ UNCHANGED drv
    \/ UmapSummary /\ UNCHANGED drv
    \/ UmapSerialize /\ UNCHANGED drv
    \/ FetchResume /\ UNCHANGED drv
    \/ FetchDone /\ UNCHANGED drv
    \/ CallerWrite /\ UNCHANGED drv
    \/ WorkerStep("umap") /\ UNCHANGED drv
    \/ Callback("umap") /\ UNCHANGED drv

SpecFetch == InitUmap /\ [][NextFetch]_vars

\* the t-SNE step computed over and over, its worker, and its end
NextTsne ==
    \/ IndexCompute(TRUE) /\ UNCHANGED drv
    \/ IndexCompute(FALSE) /\ UNCHANGED drv
    \/ /\ \E args \in TsneInputs : TsneCompute(args)
       /\ UNCHANGED drv
    \/ TsneTerminate /\ UNCHANGED drv
    \/ WorkerStep("tsne") /\ UNCHANGED drv
    \/ Callback("tsne") /\ UNCHANGED drv

SpecTsne == InitTsne /\ [][NextTsne]_vars

\* a UmapState computed and animated
NextAnimate ==
    \/ /\ \E args \in UmapInputs : UmapCompute(args)
       /\ UNCHANGED drv
    \/ UmapAnimate /\ UNCHANGED drv
    \/ AnimateDone /\ UNCHANGED drv
    \/ WorkerStep("umap") /\ UNCHANGED drv
    \/ Callback("umap") /\ UNCHANGED drv

SpecAnimate == InitUmap /\ [][NextAnimate]_vars

\* the t-SNE step computed, reloaded from a file and animated
NextTsneAnimate ==
    \/ /\ \E args \in TsneInputs : TsneCompute(args)
       /\ UNCHANGED drv
    \/ /\ \E parameters \in TsneInputs : TsneUnserialize(parameters)
       /\ UNCHANGED drv
    \/ TsneAnimate /\ UNCHANGED drv
    \/ TsneAnimateDone /\ UNCHANGED drv
    \/ WorkerStep("tsne") /\ UNCHANGED drv
    \/ Callback("tsne") /\ UNCHANGED drv

SpecTsneAnimate == InitTsne /\ [][NextTsneAnimate]_vars

\* createAnalysis has constructed every step and waits for the workers, or
\* loadAnalysis has opened a state file
InitAnalysis ==
    /\ changed = [s \in Steps |-> FALSE]
    /\ index = 0
    /\ calls = <<>>
    /\ ret = NoRet
    /\ um = UmapFresh
    /\ ts = TsneFresh
    /\ mem = NoMem
    /\ heap = NoHeap
    /\ last = NoCall
    /\ unit = "analysis"
    /\ st = FreshSteps
    /\ upstream = OneModality
    /\ \/ /\ InitWorkers
          /\ drv = [NoDriver EXCEPT !.op = "create", !.made = Steps]
       \/ /\ cache = [w \in Workers |-> [counter |-> 0, promises |-> <<>>]]
          /\ prom = [w \in Workers |-> <<>>]
          /\ sent = [w \in Workers |-> <<>>]
          /\ toWorker = [w \in Workers |-> <<>>]
          /\ fromWorker = [w \in Workers |-> <<>>]
          /\ alive = [w \in Workers |-> TRUE]
          /\ wst = [w \in Workers |-> [nn |-> NoNeighbors, coords |-> NoCoords]]
          /\ drv = [NoDriver EXCEPT !.op = "load", !.pc = 1]

\* an analysis created, run, saved, or loaded from a file, with its workers
NextAnalysis ==
    \/ CreateReady
    \/ \E p \in RunProfiles : RunStart(p)
    \/ RunStep
    \/ RunWait
    \/ RunSettle
    \/ RunEnd
    \/ SaveStart
    \/ SaveStep
    \/ SaveTsneFetch
    \/ SaveResume
    \/ FetchResume /\ UNCHANGED drv
    \/ FetchDone /\ UNCHANGED drv
    \/ SaveEnd
    \/ LoadStep
    \/ \E w \in Workers : WorkerStep(w) /\ UNCHANGED drv
    \/ \E w \in Workers : Callback(w) /\ UNCHANGED drv

SpecAnalysis == InitAnalysis /\ [][NextAnalysis]_vars

\* the steps whose compute is made to throw
Throwers == {"none", "inputs", "cell_filtering", "umap", "marker_detection"}

\* createAnalysis has constructed every step and waits for the workers
InitCallbacks == InitAnalysis /\ drv.op = "create"

\* an analysis run with or without startFun and finishFun; a compute may
\* throw
NextCallbacks ==
    \/ CreateReady
    \/ \E p \in RunProfiles, callbacks \in BOOLEAN, thrower \in Throwers :
          RunCall(p, callbacks, thrower)
    \/ RunStep
    \/ RunThrow
    \/ RunSummary
    \/ RunWait
    \/ RunSettle
    \/ RunEnd
    \/ FetchResume /\ UNCHANGED drv
    \/ FetchDone /\ UNCHANGED drv
    \/ \E w \in Workers : WorkerStep(w) /\ UNCHANGED drv
    \/ \E w \in Workers : Callback(w) /\ UNCHANGED drv

SpecCallbacks == InitCallbacks /\ [][NextCallbacks]_vars

\* a new InputsState, and new QC, PCA, CellFiltering and CombineEmbeddings
\* states: no buffer is allocated
InitBuffers ==
    /\ changed = [s \in Steps |-> FALSE]
    /\ drv = NoDriver
    /\ unit = "buffers"
    /\ st = FreshSteps
    /\ upstream = OneModality
    /\ index = 0
    /\ calls = <<>>
    /\ ret = NoRet
    /\ um = UmapFresh
    /\ ts = TsneFresh
    /\ InitWorkers
    /\ heap = NoHeap
    /\ last = NoCall
    /\ mem = NoMem

InputsArgs == [matrices : InputsMatrices, sample_factor : {Null, 1},
               subset : {Null, 1}]

NextInputs ==
    \/ \E a \in InputsArgs, f \in Fails : InputsBuffers(a, f)
    \/ InputsFree
    \/ ReadBlock

SpecInputs == InitBuffers /\ [][NextInputs]_vars

NextViews ==
    \/ \E v \in Datasets, r \in SUBSET Modalities : UpstreamBuffers(v, r)
    \/ \E slot \in {"qc_RNA", "qc_ADT", "pcs_RNA", "pcs_ADT"} : UpstreamFree(slot)
    \/ FilterBuffers
    \/ \E w \in Weights, x \in BOOLEAN : CombineBuffers(w, x)
    \/ SaveBuffers
    \/ \E file \in {mem.file} \cup ForeignFiles : LoadBuffers(file)
    \/ \E slot \in {"discard_buffer", "combined_buffer"} : ReadView(slot)

SpecViews == InitBuffers /\ [][NextViews]_vars

\* ------------------------------------------- the contents of the buffers
\* Here `mem` holds what the buffers contain, for a dataset of NCells cells.

\* every variable but `mem`
others == <<changed, index, um, ts, wvars, calls, ret, heap, last, svars, drv>>

\* the state of every other variable while the contents are looked at
InitData ==
    /\ changed = [s \in Steps |-> FALSE]
    /\ drv = NoDriver
    /\ unit = "data"
    /\ st = FreshSteps
    /\ upstream = OneModality
    /\ index = 0
    /\ calls = <<>>
    /\ ret = NoRet
    /\ um = UmapFresh
    /\ ts = TsneFresh
    /\ InitWorkers
    /\ heap = NoHeap
    /\ last = NoCall

\* cells of the dataset
NCells == 2
Cells == 1..NCells
\* a discard vector: 1 for a cell to remove
Vectors == [Cells -> {0, 1}]
\* InputsState.fetchBlock(): null, or the block of each cell
NoBlock == <<>>
Blocks == {NoBlock, [i \in Cells |-> i % 2]}
\* the QC states: that of the RNA is always valid, that of the ADT is not
\* valid if the dataset has no ADT
NoVector == <<>>
QcStates == [RNA : Vectors, ADT : Vectors \cup {NoVector}]

\* utils.findValidUpstreamStates: the names of the valid states, in order
findValidUpstreamStates(states) ==
    IF states["ADT"] = NoVector THEN <<"RNA">> ELSE <<"RNA", "ADT">>

\* what an accessor returned, or the TypeError it threw
NoOut == [kind |-> "none", val |-> <<>>]
Value(v) == [kind |-> "value", val |-> v]
TypeError == [kind |-> "TypeError", val |-> <<>>]

\* a CellFilteringState: #qc_states and #inputs (what they hold), #cache
\* (`keys` are the properties present in it), the latest call and its result
NoFiltering ==
    [qc |-> [RNA |-> NoVector, ADT |-> NoVector], block |-> NoBlock,
     keys |-> {}, discard_buffer |-> NoVector, matrix |-> <<>>,
     block_buffer |-> NoBlock, loaded |-> FALSE, op |-> "none",
     out |-> NoOut]

\* scran.filterCells: the cells whose discard value is 0, in order
filterCells(disc) ==
    SelectSeq([i \in Cells |-> i], LAMBDA i : disc[i] = 0)

\* #filter_matrix: the discard vector, with several valid QC states
disc_arrFirstOnly(qc, to_use) == qc[to_use[1]]
disc_arr(qc, to_use) ==
    [i \in Cells |-> IF \E u \in 1..Len(to_use) : qc[to_use[u]][i] # 0
                     THEN 1 ELSE 0]

\* CellFilteringState.#filter_matrix
filter_matrix(m) ==
    LET to_use == findValidUpstreamStates(m.qc)
        first == m.qc[to_use[1]]
        disc_buffer == IF Len(to_use) > 1 THEN disc_arr(m.qc, to_use)
                       ELSE first
    IN  [m EXCEPT !.discard_buffer = disc_buffer,
                  !.matrix = filterCells(disc_buffer),
                  !.keys = @ \cup {"discard_buffer", "matrix"}]

\* CellFilteringState.#filter_block, which throws a TypeError on
\* `this.#cache.matrix.numberOfColumns()` if the cache has no matrix
filter_block(m) ==
    IF m.block # NoBlock
    THEN IF "matrix" \notin m.keys
         THEN [m EXCEPT !.out = TypeError]
         ELSE LET kept == filterCells(m.discard_buffer)
              IN  [m EXCEPT !.block_buffer =
                                [j \in 1..Len(kept) |-> m.block[kept[j]]],
                            !.keys = @ \cup {"block_buffer"}]
    ELSE [m EXCEPT !.block_buffer = NoBlock,
                   !.keys = @ \cup {"block_buffer"}]

\* CellFilteringState.compute, after the states upstream computed qc and
\* block: the results are built anew if anything upstream changed
FilteringCompute(qc, block) ==
    LET ch == qc # mem.qc \/ block # mem.block
        m0 == [mem EXCEPT !.qc = qc, !.block = block, !.op = "compute",
                          !.out = NoOut]
    IN  /\ mem' = IF ch THEN filter_block(filter_matrix(m0)) ELSE m0
        /\ UNCHANGED others

\* unserialize of a file saved from the results for qc and block: the cache
\* holds the discard vector only
FilteringUnserialize(qc, block) ==
    /\ mem = NoFiltering
    /\ mem' = [NoFiltering EXCEPT
                 !.qc = qc, !.block = block, !.loaded = TRUE,
                 !.op = "unserialize", !.keys = {"discard_buffer"},
                 !.discard_buffer = filter_matrix([NoFiltering EXCEPT
                                       !.qc = qc]).discard_buffer]
    /\ UNCHANGED others

\* CellFilteringState.fetchDiscards
fetchDiscards ==
    /\ mem.keys # {}
    /\ mem' = [mem EXCEPT !.op = "fetchDiscards",
                          !.out = Value(mem.discard_buffer)]
    /\ UNCHANGED others

\* CellFilteringState.fetchFilteredMatrix: the columns of the matrix
fetchFilteredMatrix ==
    LET m == IF "matrix" \notin mem.keys THEN filter_matrix(mem) ELSE mem
    IN  /\ mem.keys # {}
        /\ mem' = [m EXCEPT !.op = "fetchFilteredMatrix",
                            !.out = Value(m.matrix)]
        /\ UNCHANGED others

\* CellFilteringState.fetchFilteredBlock: no "blocked" property is ever
\* assigned, so that #filter_block runs in every call
fetchFilteredBlock ==
    LET m == filter_block([mem EXCEPT !.out = NoOut])
    IN  /\ mem.keys # {}
        /\ mem' = [m EXCEPT !.op = "fetchFilteredBlock",
                            !.out = IF m.out = TypeError THEN TypeError
                                    ELSE Value(m.block_buffer)]
        /\ UNCHANGED others

\* CellFilteringState.summary: the number of cells retained
FilteringSummary ==
    /\ mem.keys # {}
    /\ mem' = [mem EXCEPT
                 !.op = "summary",
                 !.out = Value(<<Cardinality({i \in Cells :
                                    mem.discard_buffer[i] = 0})>>)]
    /\ UNCHANGED others

InitFiltering == InitData /\ mem = NoFiltering

NextFiltering ==
    \/ \E qc \in QcStates, block \in Blocks : FilteringCompute(qc, block)
    \/ \E qc \in QcStates, block \in Blocks : FilteringUnserialize(qc, block)
    \/ fetchDiscards
    \/ fetchFilteredMatrix
    \/ fetchFilteredBlock
    \/ FilteringSummary

SpecFiltering == InitFiltering /\ [][NextFiltering]_vars

\* ------------------------------------------- InputsState: cells and blocks
\* The datasets that can be supplied: A has MaxColumns cells and B has one.
\* A cell is known by its dataset and its column there.
MaxColumns == 2
DatasetNames == <<"A", "B">>
DatasetSize == [A |-> MaxColumns, B |-> 1]
\* the matrices given to runAnalysis: the names in the order of supply
Supplied == {<<"A">>, <<"A", "B">>, <<"B", "A">>}
\* the annotation column X of a cell, present in every dataset
AnnotationX(cell) == IF cell.col % 2 = 0 THEN "x0" ELSE "x1"
\* null, for the indices to keep
NullKeep == <<Undefined>>
\* a WasmArray or matrix that is null or absent
NoBuffer == <<"none", "none">>
InputsSlotNames == {"raw_matrix", "multi_block_ids", "raw_block_ids", "matrix",
                    "block_ids"}

\* Object.keys(datasets), and the same followed by sort()
SortedKeysAsSupplied(matrices) == matrices
SortedKeys(matrices) ==
    SelectSeq(DatasetNames,
              LAMBDA k : \E i \in 1..Len(matrices) : matrices[i] = k)

\* the columns of the datasets, bound in the order of dkeys
BoundColumns(dkeys) ==
    LET cols(k) == [j \in 1..DatasetSize[k] |-> [name |-> k, col |-> j - 1]]
    IN  IF Len(dkeys) = 1 THEN cols(dkeys[1])
        ELSE cols(dkeys[1]) \o cols(dkeys[2])

\* scran.createBlock(ncells): the id i - 1 for each of the ncells[i] cells
createBlock(ncells) ==
    IF Len(ncells) = 1 THEN [j \in 1..ncells[1] |-> 0]
    ELSE [j \in 1..ncells[1] |-> 0] \o [j \in 1..ncells[2] |-> 1]

\* a new InputsState: #parameters, #abbreviated and #cache. `own` gives the
\* buffer each entry of the cache refers to, known by the state and the entry
\* it was allocated for; `route` is the array RAW_SUBSET_OVERRIDE refers to
NoInputs ==
    [abbreviated |-> <<>>, sample_factor |-> Undefined, subset |-> Undefined,
     raw |-> <<>>, batch |-> <<>>,
     multi_block_ids |-> NoBlock, multi_block_levels |-> <<>>,
     raw_block_ids |-> NoBlock, raw_block_levels |-> <<>>,
     override |-> FALSE, route |-> "none", indices |-> <<>>,
     has_matrix |-> FALSE, matrix |-> <<>>,
     block_ids |-> NoBlock, block_levels |-> <<>>,
     own |-> [x \in InputsSlotNames |-> NoBuffer], changed |-> FALSE]

\* load_datasets and bind_datasets, then load_and_cache, for the state `me`
load_and_cache(c, me, matrices) ==
    LET dkeys == SortedKeys(matrices)
        raw == BoundColumns(dkeys)
        one == Len(dkeys) = 1
        blocks == createBlock([i \in 1..Len(dkeys) |-> DatasetSize[dkeys[i]]])
    IN  [c EXCEPT
           !.raw = raw,
           !.batch = IF one THEN <<>>
                     ELSE [i \in 1..Len(raw) |-> dkeys[blocks[i] + 1]],
           !.multi_block_ids = IF one THEN NoBlock ELSE blocks,
           !.multi_block_levels = IF one THEN <<>> ELSE dkeys,
           !.own["raw_matrix"] = <<me, "raw_matrix">>,
           !.own["multi_block_ids"] =
               IF one THEN NoBuffer ELSE <<me, "multi_block_ids">>]

\* scran.convertBlock: the levels in the order in which they first occur,
\* and the position of each value among them
convertLevels(anno) ==
    LET first(i) == \A j \in 1..(i - 1) : anno[j] # anno[i]
        at == SelectSeq([i \in 1..Len(anno) |-> i], first)
    IN  [k \in 1..Len(at) |-> anno[at[k]]]
convertIds(anno) ==
    LET levels == convertLevels(anno)
    IN  [i \in 1..Len(anno) |->
           (CHOOSE k \in 1..Len(levels) : levels[k] = anno[i]) - 1]

\* block_and_cache, which uses sample_factor whenever it is not null
block_and_cache(c, me, sample_factor) ==
    LET anno_batch == [i \in 1..Len(c.raw) |-> AnnotationX(c.raw[i])]
        factor == sample_factor # Null
    IN  [c EXCEPT
           !.raw_block_ids = IF factor THEN convertIds(anno_batch)
                             ELSE c.multi_block_ids,
           !.raw_block_levels = IF factor THEN convertLevels(anno_batch)
                                ELSE c.multi_block_levels,
           !.own["raw_block_ids"] =
               IF factor THEN <<me, "raw_block_ids">>
               ELSE c.own["multi_block_ids"]]

\* harvest_subset_indices(subset, cache): the direct indices if there are
\* any, else the cells whose X is among subset.values, else null
harvest_subset_indicesParameterFirst(c, subset, arrays) ==
    IF subset # Null /\ subset # Undefined
    THEN LET at == SelectSeq([i \in 1..Len(c.raw) |-> i],
                             LAMBDA i : AnnotationX(c.raw[i]) = "x0")
         IN  [k \in 1..Len(at) |-> at[k] - 1]
    ELSE IF c.override THEN arrays[c.route]
    ELSE NullKeep
harvest_subset_indices(c, subset, arrays) ==
    IF c.override THEN arrays[c.route]
    ELSE IF subset # Null /\ subset # Undefined
    THEN LET at == SelectSeq([i \in 1..Len(c.raw) |-> i],
                             LAMBDA i : AnnotationX(c.raw[i]) = "x0")
         IN  [k \in 1..Len(at) |-> at[k] - 1]
    ELSE NullKeep

\* scran.subsetBlock and scran.dropUnusedBlock: the ids of the cells kept,
\* the ids in use among them in increasing order, and the ids encoded anew
subsetBlock(ids, keep) == [k \in 1..Len(keep) |-> ids[keep[k] + 1]]
dropUnusedBlock(ids) ==
    SelectSeq([i \in 1..(Len(ids) + 1) |-> i - 1],
              LAMBDA b : \E k \in 1..Len(ids) : ids[k] = b)
Dense(ids) ==
    LET dropped == dropUnusedBlock(ids)
    IN  [k \in 1..Len(ids) |->
           (CHOOSE j \in 1..Len(dropped) : dropped[j] = ids[k]) - 1]

\* subset_and_cache(subset, cache): `matrix` holds, for each column, its
\* column in raw_matrix
subset_and_cache(c, me, subset, arrays) ==
    LET keep == harvest_subset_indices(c, subset, arrays)
        blocked == c.raw_block_ids # NoBlock
        new_block_ids == subsetBlock(c.raw_block_ids, keep)
        dropped == dropUnusedBlock(new_block_ids)
    IN  IF keep = NullKeep
        THEN [c EXCEPT
                !.matrix = [i \in 1..Len(c.raw) |-> i - 1],
                !.has_matrix = TRUE,
                !.block_ids = c.raw_block_ids,
                !.block_levels = IF blocked THEN c.raw_block_levels ELSE <<>>,
                !.own["matrix"] = <<me, "matrix">>,
                !.own["block_ids"] = c.own["raw_block_ids"]]
        ELSE [c EXCEPT
                !.matrix = keep,
                !.has_matrix = TRUE,
                !.block_ids = IF blocked THEN Dense(new_block_ids) ELSE NoBlock,
                !.block_levels =
                    IF blocked
                    THEN [j \in 1..Len(dropped) |->
                            c.raw_block_levels[dropped[j] + 1]]
                    ELSE <<>>,
                !.own["matrix"] = <<me, "matrix">>,
                !.own["block_ids"] =
                    IF blocked THEN <<me, "block_ids">> ELSE NoBuffer]


\* ------------------------------------------- InputsState: direct subsets
\* Two InputsState objects: "s", made by createAnalysis, and "d", made from it
\* by createDirectSubset. `arrays` holds the arrays of indices: "a1", "a2" and
\* "a3" are the caller's ("a2" is given to createDirectSubset, the others to
\* setDirectSubset), "s" and "d" are the copies the states made; `live` holds
\* the buffers not yet freed; `call` is the last call and the array given to
\* it. The caller works on "s" until it makes "d", and on "s" again once it
\* has freed "d".
StateNames == {"s", "d"}
NoSubsetCall ==
    [op |-> "none", idx |-> <<>>, copy |-> FALSE, onOriginal |-> FALSE,
     given |-> "none"]
NoSubsetting ==
    [s |-> NoInputs, d |-> NoInputs,
     arrays |-> [a \in {"a1", "a2", "a3", "s", "d"} |-> <<>>],
     live |-> {}, freed |-> {}, err |-> FALSE, call |-> NoSubsetCall]

\* the arrays that a state or the caller's last call still refers to; the
\* others are garbage
Reachable(arrays, routes) ==
    [a \in DOMAIN arrays |-> IF a \in routes THEN arrays[a] ELSE <<>>]

\* the indices a caller can give: sorted, without duplicates, not empty
SortedIndices(n) ==
    {SelectSeq([i \in 1..n |-> i - 1], LAMBDA x : x \in S) :
       S \in (SUBSET (0..(n - 1))) \ {{}}}

\* this.#parameters.subset, or null if compute() has not set it yet
StoredSubset(c) == IF c.subset = Undefined THEN Null ELSE c.subset
\* the columns of raw_matrix that the state keeps, or null
KeptColumns(c, arrays) == harvest_subset_indices(c, StoredSubset(c), arrays)
\* the number of columns the caller's indices may refer to
Columns(c, arrays, onOriginal) ==
    LET keep == KeptColumns(c, arrays)
    IN  IF ~onOriginal /\ keep # NullKeep THEN Len(keep)
        ELSE IF c.raw # <<>> THEN Len(c.raw) ELSE MaxColumns + 1

\* utils.checkIndices lets the indices through, and they are columns
InRange(indices, n) == \A i \in 1..Len(indices) : indices[i] < n

\* undoSubset(indices): the array after it was modified in place
undoSubsetIdentity(c, indices, arrays) == indices
undoSubset(c, indices, arrays) ==
    LET keep == KeptColumns(c, arrays)
    IN  IF keep # NullKeep
        THEN [i \in 1..Len(indices) |-> keep[indices[i] + 1]]
        ELSE indices

\* #configureIndices(indices, copy, onOriginal), called with the caller's
\* array `given`: the array the result refers to, and the arrays afterwards
configureIndicesShared(c, me, given, copy, onOriginal, arrays) ==
    LET indices == given
        result == IF onOriginal THEN arrays[given]
                  ELSE undoSubset(c, arrays[given], arrays)
    IN  [route |-> indices, arrays |-> [arrays EXCEPT ![indices] = result]]
configureIndices(c, me, given, copy, onOriginal, arrays) ==
    LET indices == IF copy THEN me ELSE given
        result == IF onOriginal THEN arrays[given]
                  ELSE undoSubset(c, arrays[given], arrays)
    IN  [route |-> indices, arrays |-> [arrays EXCEPT ![indices] = result]]

\* a keep that points outside raw_matrix makes scran.subsetColumns throw
OutOfRange(c, subset, arrays) ==
    LET keep == harvest_subset_indices(c, subset, arrays)
    IN  /\ keep # NullKeep
        /\ \E k \in 1..Len(keep) : keep[k] >= Len(c.raw)

\* the buffers a state's cache refers to that it allocated itself
OwnBuffers(c) ==
    {c.own[x] : x \in {y \in InputsSlotNames :
                         c.own[y] # NoBuffer /\ c.own[y][2] = y}}

\* the live buffers once a state has freed the buffers it replaces and has
\* allocated the new ones
Replaced(live, old, new) == (live \ OwnBuffers(old)) \cup OwnBuffers(new)

\* compute(matrices, sample_factor, subset) of the state "s"; matrices = <<>>
\* stands for null
SubsetCompute(matrices, sample_factor, subset) ==
    /\ ~mem.err /\ "s" \notin mem.freed /\ mem.d = NoInputs
    /\ matrices = <<>> => mem.s.raw # <<>>
    /\ LET c0 == [mem.s EXCEPT !.changed = FALSE]
           load == matrices # <<>> /\ matrices # c0.abbreviated
           c1 == IF load
                 THEN [load_and_cache(c0, "s", matrices) EXCEPT
                         !.abbreviated = matrices, !.changed = TRUE]
                 ELSE c0
           block == c1.changed \/ c1.sample_factor # sample_factor
           c2 == IF block
                 THEN [block_and_cache(c1, "s", sample_factor) EXCEPT
                         !.sample_factor = sample_factor, !.changed = TRUE]
                 ELSE c1
           sub == c2.changed \/ (~c2.override /\ subset # c2.subset)
           fails == sub /\ OutOfRange(c2, subset, mem.arrays)
           c3 == IF sub /\ ~fails
                 THEN [subset_and_cache(c2, "s", subset, mem.arrays) EXCEPT
                         !.subset = subset, !.changed = TRUE]
                 ELSE c2
       IN  mem' = [mem EXCEPT
                     !.s = c3, !.err = fails,
                     !.arrays = Reachable(@, {c3.route}),
                     !.live = IF fails THEN @ ELSE Replaced(@, mem.s, c3),
                     !.call = [NoSubsetCall EXCEPT !.op = "compute"]]
    /\ UNCHANGED others

\* a new array of the caller: one that the state does not refer to
NewArray(c) == IF c.route = "a1" THEN "a3" ELSE "a1"

\* setDirectSubset(indices, {copy, onOriginal}) of the state "s", the caller's
\* array being a new one
setDirectSubset(indices, copy, onOriginal) ==
    /\ ~mem.err /\ "s" \notin mem.freed /\ mem.d = NoInputs
    /\ InRange(indices, Columns(mem.s, mem.arrays, onOriginal))
    /\ LET a == NewArray(mem.s)
           given == [mem.arrays EXCEPT ![a] = indices]
           conf == configureIndices(mem.s, "s", a, copy, onOriginal, given)
           c1 == [mem.s EXCEPT !.override = TRUE, !.route = conf.route]
           fails == c1.has_matrix /\ OutOfRange(c1, c1.subset, conf.arrays)
           c2 == IF c1.has_matrix /\ ~fails
                 THEN [subset_and_cache(c1, "s", c1.subset, conf.arrays)
                         EXCEPT !.changed = TRUE]
                 ELSE c1
       IN  mem' = [mem EXCEPT
                     !.s = c2, !.err = fails,
                     !.live = IF fails THEN @ ELSE Replaced(@, mem.s, c2),
                     !.arrays = Reachable(conf.arrays, {c2.route}),
                     !.call = [NoSubsetCall EXCEPT
                                 !.op = "setDirectSubset", !.idx = indices,
                                 !.given = a,
                                 !.copy = copy, !.onOriginal = onOriginal]]
    /\ UNCHANGED others

\* setDirectSubset(null)
clearDirectSubset ==
    /\ ~mem.err /\ "s" \notin mem.freed /\ mem.d = NoInputs
    /\ mem.s.override
    /\ LET c1 == [mem.s EXCEPT !.override = FALSE, !.route = "none"]
           c2 == IF c1.has_matrix
                 THEN [subset_and_cache(c1, "s", c1.subset, mem.arrays)
                         EXCEPT !.changed = TRUE]
                 ELSE c1
       IN  mem' = [mem EXCEPT !.s = c2, !.arrays = Reachable(@, {}),
                              !.live = Replaced(@, mem.s, c2),
                              !.call = [NoSubsetCall EXCEPT !.op = "clear"]]
    /\ UNCHANGED others

\* clone_MultiMatrix(x) and WasmArray.clone(): null stays null, anything else
\* becomes a buffer of the new state
clone(c, me, x) == IF c.own[x] = NoBuffer THEN NoBuffer ELSE <<me, x>>

\* createDirectSubset(indices, {copy, onOriginal}) of the loaded state "s",
\* the caller's array being "a2"
createDirectSubset(indices, copy, onOriginal) ==
    /\ ~mem.err /\ "s" \notin mem.freed /\ mem.d = NoInputs
    /\ mem.s.has_matrix
    /\ InRange(indices, Columns(mem.s, mem.arrays, onOriginal))
    /\ LET src == mem.s
           given == [mem.arrays EXCEPT !["a2"] = indices]
           conf == configureIndices(src, "d", "a2", copy, onOriginal, given)
           cloned(x) == clone(src, "d", x)
           new_cache ==
               [NoInputs EXCEPT
                  !.override = TRUE, !.route = conf.route,
                  !.raw = src.raw, !.batch = src.batch,
                  !.multi_block_ids = src.multi_block_ids,
                  !.raw_block_ids = src.raw_block_ids,
                  !.multi_block_levels = src.multi_block_levels,
                  !.raw_block_levels = src.raw_block_levels,
                  !.own["raw_matrix"] = cloned("raw_matrix"),
                  !.own["multi_block_ids"] = cloned("multi_block_ids"),
                  !.own["raw_block_ids"] = cloned("raw_block_ids")]
           fails == OutOfRange(new_cache, Null, conf.arrays)
           made == [subset_and_cache(new_cache, "d", Null, conf.arrays)
                      EXCEPT !.sample_factor = src.sample_factor,
                             !.subset = Null,
                             !.abbreviated = src.abbreviated]
       IN  mem' = [mem EXCEPT
                     !.d = IF fails THEN NoInputs ELSE made,
                     !.err = fails,
                     !.arrays = Reachable(conf.arrays,
                                          {src.route, conf.route, "a2"}),
                     !.live = IF fails THEN @ ELSE @ \cup OwnBuffers(made),
                     !.call = [NoSubsetCall EXCEPT
                                 !.op = "createDirectSubset", !.idx = indices,
                                 !.given = "a2",
                                 !.copy = copy, !.onOriginal = onOriginal]]
    /\ UNCHANGED others

\* the caller writes to the array it gave to the last call with copy = true
CallerEdit ==
    /\ ~mem.err
    /\ mem.call.op = "createDirectSubset" /\ mem.call.copy
    /\ mem' = [mem EXCEPT
                 !.arrays[mem.call.given] = [i \in 1..Len(@) |-> 0],
                 !.call = [@ EXCEPT !.op = "edit", !.copy = FALSE]]
    /\ UNCHANGED others

\* free() of one of the states; the caller then drops the state "d"
SubsetFree(x) ==
    /\ ~mem.err /\ x \notin mem.freed
    /\ mem[x].has_matrix
    /\ mem' = [mem EXCEPT
                 !.live = @ \ OwnBuffers(mem[x]),
                 !.freed = IF x = "s" THEN @ \cup {x} ELSE @,
                 !.d = IF x = "d" THEN NoInputs ELSE @,
                 !.arrays = Reachable(@, IF x = "d" THEN {mem.s.route}
                                         ELSE {mem.s.route, mem.d.route}),
                 !.call = [NoSubsetCall EXCEPT !.op = "free", !.given = x]]
    /\ UNCHANGED others

InitSubset == InitData /\ mem = NoSubsetting
NextSubset ==
    \/ \E m \in Supplied \cup {<<>>}, f \in {Null, 1}, sub \in {Null, 1} :
         SubsetCompute(m, f, sub)
    \/ \E idx \in SortedIndices(MaxColumns + 1) :
         \E copy \in BOOLEAN, onOriginal \in BOOLEAN :
           \/ setDirectSubset(idx, copy, onOriginal)
           \/ createDirectSubset(idx, copy, onOriginal)
    \/ clearDirectSubset
    \/ CallerEdit
    \/ \E x \in StateNames : SubsetFree(x)
SpecSubset == InitSubset /\ [][NextSubset]_vars


\* ------------------------------------------- gene annotations of the inputs
\* The gene annotations of a matrix are null (`annotated` is false) or a list
\* of columns, in the order of Object.entries. A column is known by its field, by what
\* scran.guessFeatures makes of it (type, species and a confidence, here in
\* halves) and by the identifiers it holds.
MaxFields == 2
FieldNames == <<"id", "name", "symbol">>
FeatureFamilies ==
    <<"symbol-mouse", "symbol-human", "ensembl-mouse", "ensembl-human">>
Confidences == {1, 2}
Identifiers == {<<"g1">>, <<"g2">>}
NoCount == Undefined
GeneColumns(n) ==
    {[i \in 1..n |-> [field |-> FieldNames[i], family |-> fc[i][1],
                      confidence |-> fc[i][2], ids |-> fc[i][3]]] :
       fc \in [1..n -> {<<f, c, g>> :
                          f \in {FeatureFamilies[k] : k \in 1..4},
                          c \in Confidences, g \in Identifiers}]}
\* the matrices given to validateAnnotations: "3k" alone, or "3k" and "4k",
\* the latter with one column at most
GeneAnnotations(name, n) ==
    {[name |-> name, annotated |-> FALSE, genes |-> <<>>]}
    \cup {[name |-> name, annotated |-> TRUE, genes |-> g] :
            g \in UNION {GeneColumns(k) : k \in 0..n}}
MatricesWithGenes ==
    {<<g>> : g \in GeneAnnotations("3k", MaxFields)}
    \cup {<<g, h>> : g \in GeneAnnotations("3k", MaxFields),
                     h \in GeneAnnotations("4k", 1)}

\* what a call returns or throws
Returned3(fields, common) ==
    [kind |-> "value", message |-> "", matrix |-> "", fields |-> fields,
     common |-> common]
ThrownError(message, matrix) ==
    [kind |-> "error", message |-> message, matrix |-> matrix,
     fields |-> <<>>, common |-> NoCount]

\* commonFeatureTypes: best_scores and best_fields of one entry of genes for
\* a family: the first column among those of the highest confidence, 0 if
\* the family has no column
best_fieldsLast(curgenes, k) ==
    LET of == {i \in 1..Len(curgenes) : curgenes[i].family = k}
    IN  IF of = {} THEN 0
        ELSE CHOOSE i \in of : \A j \in of : j <= i
best_fields(curgenes, k) ==
    LET of == {i \in 1..Len(curgenes) : curgenes[i].family = k}
    IN  IF of = {} THEN 0
        ELSE CHOOSE i \in of :
               \A j \in of :
                 \/ curgenes[j].confidence < curgenes[i].confidence
                 \/ curgenes[j].confidence = curgenes[i].confidence /\ i <= j
\* v.reduce((a, b) => a * b) over the best scores of the entries
RECURSIVE nscore(_, _, _)
nscore(genes, k, n) ==
    IF n = 0 THEN 1
    ELSE nscore(genes, k, n - 1)
           * genes[n].genes[best_fields(genes[n].genes, k)].confidence
\* the loop over Object.entries(scores): position of the best family so far
RECURSIVE best_type(_, _)
best_type(genes, upto) ==
    IF upto = 0 THEN 0
    ELSE LET before == best_type(genes, upto - 1)
             k == FeatureFamilies[upto]
             all == \A n \in 1..Len(genes) : best_fields(genes[n].genes, k) # 0
         IN  IF ~all THEN before
             ELSE IF before = 0 THEN upto
             ELSE IF nscore(genes, k, Len(genes))
                       > nscore(genes, FeatureFamilies[before], Len(genes))
             THEN upto
             ELSE before
\* commonFeatureTypes(genes): best_type, "null" if there is none, and the
\* field chosen for each entry
commonFeatureTypes(genes) ==
    LET best == best_type(genes, 4)
    IN  IF best = 0 THEN [best_type |-> "null", best_fields |-> <<>>]
        ELSE [best_type |-> FeatureFamilies[best],
              best_fields |->
                [n \in 1..Len(genes) |->
                   genes[n].genes[best_fields(genes[n].genes,
                                              FeatureFamilies[best])].field]]

\* the identifiers of the column `field` of some gene annotations
IdsOf(curgenes, field) ==
    LET i == CHOOSE j \in 1..Len(curgenes) : curgenes[j].field = field
    IN  {curgenes[i].ids[x] : x \in 1..Len(curgenes[i].ids)}

\* validateAnnotations: the first matrix for which it throws as it collects
\* the genes, 0 if there is none
MissingGenesAllowed(matrices) == 0
MissingGenes(matrices) ==
    LET multi == Len(matrices) > 1
        missing == {i \in 1..Len(matrices) : ~matrices[i].annotated}
    IN  IF multi /\ missing # {}
        THEN CHOOSE i \in missing : \A j \in missing : i <= j
        ELSE 0

\* validateAnnotations(matrices), for the modality RNA
validateAnnotations(matrices) ==
    LET multi == Len(matrices) > 1
        missing == MissingGenes(matrices)
        genes == SelectSeq(matrices, LAMBDA m : m.annotated)
        results == commonFeatureTypes(genes)
        intersection ==
            {g \in IdsOf(genes[1].genes, results.best_fields[1]) :
               \A n \in 1..Len(genes) :
                 g \in IdsOf(genes[n].genes, results.best_fields[n])}
    IN  IF missing # 0
        THEN ThrownError("cannot find gene annotations for matrix",
                         matrices[missing].name)
        ELSE IF genes = <<>> THEN Returned3(<<>>, NoCount)
        ELSE IF results.best_type = "null"
        THEN ThrownError("cannot find common feature types across all matrices",
                         "")
        ELSE IF multi
        THEN Returned3(results.best_fields, Cardinality(intersection))
        ELSE Returned3(results.best_fields, Len(genes[1].genes[1].ids))

\* bind_single_modality(dkeys, datasets, "RNA"): the fields it binds by
bind_single_modality(matrices) ==
    LET result == commonFeatureTypes(matrices)
        missing == {i \in 1..Len(matrices) : ~matrices[i].annotated}
    IN  IF missing # {}
        THEN ThrownError("no gene annotations found in matrix",
                         matrices[CHOOSE i \in missing :
                                    \A j \in missing : i <= j].name)
        ELSE IF result.best_type = "null"
        THEN ThrownError("no common feature types available across all matrices",
                         "")
        ELSE Returned3(result.best_fields, NoCount)

\* one call on the matrices
NoPreflight(matrices) ==
    [matrices |-> matrices, op |-> "none", out |-> Returned3(<<>>, NoCount),
     best_type |-> "null"]
Preflight ==
    /\ mem.op = "none"
    /\ mem' = [mem EXCEPT !.op = "validateAnnotations",
                          !.out = validateAnnotations(mem.matrices)]
    /\ UNCHANGED others
CommonTypes ==
    /\ mem.op = "none"
    /\ \A i \in 1..Len(mem.matrices) : mem.matrices[i].annotated
    /\ LET result == commonFeatureTypes(mem.matrices)
       IN  mem' = [mem EXCEPT !.op = "commonFeatureTypes",
                              !.best_type = result.best_type,
                              !.out = Returned3(result.best_fields, NoCount)]
    /\ UNCHANGED others
BindModality ==
    /\ mem.op = "none"
    /\ mem' = [mem EXCEPT !.op = "bind_single_modality",
                          !.out = bind_single_modality(mem.matrices)]
    /\ UNCHANGED others

InitAnnotations ==
    /\ InitData
    /\ \E m \in MatricesWithGenes : mem = NoPreflight(m)
NextAnnotations == Preflight \/ CommonTypes \/ BindModality
SpecAnnotations == InitAnnotations /\ [][NextAnnotations]_vars


\* ------------------------------------------- quality control: the contents
\* The matrix of the inputs is known by a number, which goes up each time the
\* inputs change. Metrics are known by what they were computed from, filters
\* by the metrics and the number of MADs.
MaxMatrices == 2
MitoPrefixes == {"mt-", "MT-", "mito"}
QualityArgs ==
    [skip : BOOLEAN, use_mito_default : BOOLEAN, mito_prefix : MitoPrefixes,
     nmads : {3, 4}]
\* String.toLowerCase
toLowerCase(x) == IF x = "MT-" THEN "mt-" ELSE x
\* the subsets that the metrics are computed with: the default lists of
\* mitochondrial genes, or the genes that start with the prefix
MitoSubset(use_mito_default, mito_prefix) ==
    IF use_mito_default THEN "default" ELSE toLowerCase(mito_prefix)
NoMetrics == [present |-> FALSE, matrix |-> 0, subset |-> "none"]
computePerCellQCMetrics(mat, subsets) ==
    [present |-> TRUE, matrix |-> mat, subset |-> subsets]
NoFilters == [present |-> FALSE, metrics |-> NoMetrics, nmads |-> 0]
computePerCellQCFilters(metrics, nmads) ==
    [present |-> TRUE, metrics |-> metrics, nmads |-> nmads]
\* QualityControlState.defaults()
QualityDefaults ==
    [skip |-> FALSE, use_mito_default |-> TRUE, mito_prefix |-> "mt-",
     nmads |-> 3]

\* new QualityControlState(inputs), next to its inputs; `turn` is the step
\* that runAnalysis calls next, `file` what serialize wrote
NoQualityFile ==
    [written |-> FALSE, parameters |-> NoFields, metrics |-> NoMetrics,
     filters |-> NoFilters]
NoQuality ==
    [matrix |-> 0, inputs_changed |-> FALSE, turn |-> "inputs",
     parameters |-> NoFields, metrics |-> NoMetrics, filters |-> NoFilters,
     changed |-> FALSE, op |-> "none", file |-> NoQualityFile,
     saved |-> NoQualityFile]

\* InputsState.compute, as quality control sees it: the flag, and another
\* matrix when it is set
QualityInputs(b) ==
    /\ mem.turn = "inputs" /\ ~mem.file.written
    /\ b => mem.matrix < MaxMatrices
    /\ mem.matrix = 0 => b
    /\ mem' = [mem EXCEPT !.matrix = IF b THEN @ + 1 ELSE @,
                          !.inputs_changed = b, !.turn = "quality_control",
                          !.op = "inputs"]
    /\ UNCHANGED others

\* the two conditions of QualityControlState.compute
MetricsGate(c, a) ==
    \/ c.inputs_changed
    \/ Differs(c.parameters, "use_mito_default", a.use_mito_default)
    \/ Differs(c.parameters, "mito_prefix", a.mito_prefix)
    \/ (~a.skip /\ ~c.metrics.present)
FiltersGateNmadsOnly(c, a, this_changed) ==
    \/ Differs(c.parameters, "nmads", a.nmads)
    \/ (~a.skip /\ ~c.filters.present)
FiltersGate(c, a, this_changed) ==
    \/ this_changed
    \/ Differs(c.parameters, "nmads", a.nmads)
    \/ (~a.skip /\ ~c.filters.present)

\* QualityControlState.compute(skip, use_mito_default, mito_prefix, nmads)
QualityCompute(a) ==
    /\ mem.turn = "quality_control" /\ ~mem.file.written
    /\ LET c == mem
           m == MetricsGate(c, a)
           metrics ==
               IF ~m THEN c.metrics
               ELSE IF a.skip THEN NoMetrics
               ELSE computePerCellQCMetrics(
                        c.matrix, MitoSubset(a.use_mito_default, a.mito_prefix))
           p1 == Keep(m, Keep(m, c.parameters, "use_mito_default",
                              a.use_mito_default),
                      "mito_prefix", a.mito_prefix)
           f == FiltersGate(c, a, m)
           filters ==
               IF ~f THEN c.filters
               ELSE IF a.skip THEN NoFilters
               ELSE computePerCellQCFilters(metrics, a.nmads)
           p2 == Keep(f, p1, "nmads", a.nmads)
           ch == IF Differs(p2, "skip", a.skip) THEN TRUE
                 ELSE IF p2.skip /\ a.skip THEN FALSE
                 ELSE f
       IN  mem' = [mem EXCEPT !.parameters = Put(p2, "skip", a.skip),
                              !.metrics = metrics, !.filters = filters,
                              !.changed = ch, !.turn = "inputs",
                              !.op = "compute"]
    /\ UNCHANGED others

\* Number(x) of a boolean
Number(x) == IF x THEN 1 ELSE 0

\* QualityControlState.serialize(handle), on a state that was computed
QualitySerialize ==
    /\ mem.turn = "inputs" /\ mem.op = "compute" /\ ~mem.file.written
    /\ LET file ==
             [written |-> TRUE,
              parameters |->
                [skip |-> Number(mem.parameters.skip),
                 use_mito_default |-> Number(mem.parameters.use_mito_default),
                 mito_prefix |-> mem.parameters.mito_prefix,
                 nmads |-> mem.parameters.nmads],
              metrics |-> mem.metrics, filters |-> mem.filters]
       IN  mem' = [mem EXCEPT !.file = file, !.op = "serialize",
                              !.saved = [file EXCEPT
                                           !.parameters = mem.parameters]]
    /\ UNCHANGED others

\* unserialize: parameters.skip, which an older file does not have
BackCompatibleSkipIgnored(phandle) == QualityDefaults.skip
BackCompatibleSkip(phandle) ==
    IF "skip" \in DOMAIN phandle THEN phandle.skip > 0
    ELSE QualityDefaults.skip

\* unserialize(handle, inputs) of quality_control.js, on the file as written
\* or on the file of an older version, which has no `skip` and never skipped
QualityUnserialize(old) ==
    /\ mem.file.written
    /\ old => mem.file.parameters.skip = 0
    /\ LET all == mem.file.parameters
           phandle == IF old THEN [k \in DOMAIN all \ {"skip"} |-> all[k]]
                      ELSE all
           parameters ==
               [skip |-> BackCompatibleSkip(phandle),
                use_mito_default |-> phandle.use_mito_default > 0,
                mito_prefix |-> phandle.mito_prefix,
                nmads |-> phandle.nmads]
       IN  mem' = [mem EXCEPT !.parameters = parameters,
                              !.metrics = mem.file.metrics,
                              !.filters = mem.file.filters,
                              !.changed = FALSE, !.inputs_changed = FALSE,
                              !.file = NoQualityFile,
                              !.op = IF old THEN "unserialize_old"
                                     ELSE "unserialize"]
    /\ UNCHANGED others

InitQuality == InitData /\ mem = NoQuality
NextQuality ==
    \/ \E b \in BOOLEAN : QualityInputs(b)
    \/ \E a \in QualityArgs : QualityCompute(a)
    \/ QualitySerialize
    \/ \E old \in BOOLEAN : QualityUnserialize(old)
SpecQuality == InitQuality /\ [][NextQuality]_vars


\* --------------------------------- a UmapState across runs of the analysis
\* runAnalysis calls the compute of the neighbor index and then that of the
\* UMAP step in every run; animate() is called between runs. `drv.op` is the
\* step to call next, `drv.log` the messages handed to the worker so far.
Handed(w) ==
    IF Len(sent'[w]) > Len(sent[w])
    THEN Append(drv.log, toWorker'[w][Len(toWorker'[w])])
    ELSE drv.log

RunIndex(b) ==
    /\ drv.op = "none"
    /\ IndexCompute(b)
    /\ drv' = [drv EXCEPT !.op = "neighbor_index"]

RunUmap(args) ==
    /\ drv.op = "neighbor_index"
    /\ UmapCompute(args)
    /\ drv' = [drv EXCEPT !.op = "none", !.log = Handed("umap")]

BetweenRunsAnimate ==
    /\ drv.op = "none"
    /\ UmapAnimate
    /\ drv' = [drv EXCEPT !.log = Handed("umap")]

NextNeighbors ==
    \/ \E b \in BOOLEAN : RunIndex(b)
    \/ \E args \in UmapInputs : RunUmap(args)
    \/ BetweenRunsAnimate
    \/ AnimateDone /\ UNCHANGED drv
    \/ UmapFree /\ UNCHANGED drv
    \/ WorkerStep("umap") /\ UNCHANGED drv
    \/ Callback("umap") /\ UNCHANGED drv

SpecNeighbors == InitUmap /\ [][NextNeighbors]_vars


\* ------------------------ a direct subset between two runs of the analysis
\* The cells of cache.matrix, as subset_and_cache selects them: by the
\* indices of a direct subset when there is one, else by the subset handed
\* to it.
DirectIndices == {Null, 1, 2}
NoCells == [files |-> Null, by |-> "none", sel |-> Null]
SelectedCells(files, override, subset) ==
    IF override # Null THEN [files |-> files, by |-> "indices", sel |-> override]
    ELSE [files |-> files, by |-> "subset", sel |-> subset]

\* createAnalysis: the inputs and the quality control built on them; `cells`
\* is what cache.matrix holds and `metrics_of` the cells cache.metrics was
\* computed from; `pc` is the step runAnalysis has just called
NoDirect ==
    [inputs |-> StepState(NoFields, {}), changed_inputs |-> FALSE,
     override |-> Null, cells |-> NoCells,
     qc |-> StepState(NoFields, {}), changed_qc |-> FALSE,
     metrics_of |-> NoCells, pc |-> "idle", args |-> NoFields,
     qargs |-> NoFields, same |-> FALSE, direct |-> FALSE]

\* runAnalysis: await state.inputs.compute(matrices, sample_factor, subset)
DirectInputs(a) ==
    /\ mem.pc = "idle"
    /\ a.matrices = Null => "raw_matrix" \in mem.inputs.cache
    /\ LET r == InputsComputed(mem.inputs, a)
       IN  mem' = [mem EXCEPT
                     !.inputs = [parameters |-> r.parameters, cache |-> r.cache,
                                 touched |-> r.touched],
                     !.changed_inputs = r.changed,
                     !.cells = IF SubsetEntries \subseteq r.touched
                               THEN SelectedCells(r.parameters.abbreviated.files,
                                          mem.override, a.subset)
                               ELSE @,
                     !.pc = "inputs", !.same = (mem.args = a), !.args = a]
    /\ UNCHANGED others

\* runAnalysis: state.quality_control.compute(...), right after the inputs
DirectQc(q) ==
    /\ mem.pc = "inputs"
    /\ LET r == QcComputed(mem.qc, mem.changed_inputs, q)
       IN  mem' = [mem EXCEPT
                     !.qc = [parameters |-> r.parameters, cache |-> r.cache,
                             touched |-> r.touched],
                     !.changed_qc = r.changed,
                     !.metrics_of = IF "metrics" \in r.touched \cap r.cache
                                    THEN mem.cells
                                    ELSE IF "metrics" \in r.cache THEN @
                                    ELSE NoCells,
                     !.pc = "idle", !.direct = FALSE,
                     !.same = mem.same /\ mem.qargs = q, !.qargs = q]
    /\ UNCHANGED others

\* InputsState.setDirectSubset(indices), between two runs
DirectSet(indices) ==
    /\ mem.pc = "idle"
    /\ LET c == mem.inputs.cache
           rerun == "matrix" \in c
           cells == IF rerun
                    THEN SelectedCells(mem.cells.files, indices,
                               mem.inputs.parameters.subset)
                    ELSE mem.cells
       IN  mem' = [mem EXCEPT
                     !.override = indices,
                     !.inputs.cache =
                        IF indices # Null THEN c \cup {RAW_SUBSET_OVERRIDE}
                        ELSE c \ {RAW_SUBSET_OVERRIDE},
                     !.inputs.touched = IF rerun THEN SubsetEntries ELSE @,
                     !.changed_inputs = IF rerun THEN TRUE ELSE @,
                     !.cells = cells,
                     !.direct = @ \/ cells # mem.cells]
    /\ UNCHANGED others

InitDirect == InitData /\ mem = NoDirect
NextDirect ==
    \/ \E a \in InputsInputs : DirectInputs(a)
    \/ \E q \in QcInputs : DirectQc(q)
    \/ \E indices \in DirectIndices : DirectSet(indices)
SpecDirect == InitDirect /\ [][NextDirect]_vars


\* ------------------------------------------- runs that abort, and results
\* The first steps of runAnalysis, with what each result was derived from:
\* `ver[s]` counts the results step s has computed, `basis[s]` holds the
\* counts of its upstream steps when its current results were computed.
MaxAbortRuns == 3
AbortOrder == <<"inputs", "quality_control", "cell_filtering", "normalization">>
AbortSteps == {AbortOrder[i] : i \in 1..Len(AbortOrder)}
AbortThrowers == {"none", "cell_filtering", "normalization"}
AbortArgs == {q \in QcInputs : ~q.skip}
\* the steps whose results a step reads when it computes
ReadBy(step) ==
    CASE step = "quality_control" -> {"inputs"}
      [] step = "cell_filtering" -> {"inputs", "quality_control"}
      [] step = "normalization" -> {"quality_control", "cell_filtering"}
      [] OTHER -> {}
OneFile == [matrices |-> 1, sample_factor |-> Null, subset |-> Null]

NoAbort ==
    [st |-> [s \in AbortSteps |-> StepState(NoFields, {})],
     changed |-> [s \in AbortSteps |-> FALSE],
     ver |-> [s \in AbortSteps |-> 0],
     basis |-> [s \in AbortSteps |-> [u \in ReadBy(s) |-> 0]],
     pc |-> 0, runs |-> 0, params |-> NoFields, same |-> FALSE,
     thrower |-> "none", aborted |-> FALSE, after_abort |-> FALSE,
     ever_aborted |-> FALSE,
     changed_in_abort |-> {}, recomputed |-> {}]

\* the results mem holds are those derived from the upstream results it holds
Consistent(step) ==
    mem.ver[step] > 0 => \A u \in ReadBy(step) : mem.basis[step][u] = mem.ver[u]

\* runAnalysis(state, matrices, params) is called; `thrower` is the step
\* whose compute throws in this call if it recomputes
AbortCall(q, thrower) ==
    /\ mem.pc = 0 /\ mem.runs < MaxAbortRuns
    /\ mem' = [mem EXCEPT !.pc = 1, !.runs = @ + 1, !.params = q,
                          !.same = (mem.params = q), !.thrower = thrower,
                          !.after_abort = mem.aborted, !.aborted = FALSE,
                          !.changed_in_abort =
                              IF mem.aborted THEN mem.recomputed ELSE {},
                          !.recomputed = {}]
    /\ UNCHANGED others

\* what the compute of a step gives, from the states and flags at hand
AbortComputed(step) ==
    CASE step = "inputs" -> InputsComputed(mem.st[step], OneFile)
      [] step = "quality_control" ->
            QcComputed(mem.st[step], mem.changed["inputs"], mem.params)
      [] step = "cell_filtering" ->
            FilterComputed(mem.st[step], mem.changed, {"RNA"}, FALSE)
      [] OTHER -> NormComputed(mem.st[step], mem.changed)

\* whether the compute of a step has replaced its results
Replaces(step, r) ==
    IF step = "quality_control" THEN r.touched # {} ELSE r.changed

\* runAnalysis: the next compute returns
AbortStep ==
    /\ mem.pc \in 1..Len(AbortOrder)
    /\ LET step == AbortOrder[mem.pc]
           r == AbortComputed(step)
           again == Replaces(step, r)
       IN  /\ ~(step = mem.thrower /\ again)
           /\ mem' = [mem EXCEPT
                        !.st[step] = [parameters |-> r.parameters,
                                      cache |-> r.cache, touched |-> r.touched],
                        !.changed[step] = r.changed,
                        !.ver[step] = IF again THEN @ + 1 ELSE @,
                        !.basis[step] =
                            IF again THEN [u \in ReadBy(step) |-> mem.ver[u]]
                            ELSE @,
                        !.recomputed = IF again THEN @ \cup {step} ELSE @,
                        !.pc = IF mem.pc = Len(AbortOrder) THEN 0 ELSE @ + 1]
    /\ UNCHANGED others

\* runAnalysis: the compute of the thrower has set its flag and throws while
\* it recomputes, before it replaces its results; the call rejects
AbortThrow ==
    /\ mem.pc \in 1..Len(AbortOrder)
    /\ LET step == AbortOrder[mem.pc]
           r == AbortComputed(step)
       IN  /\ step = mem.thrower /\ Replaces(step, r)
           /\ mem' = [mem EXCEPT !.changed[step] = TRUE, !.pc = 0,
                                 !.aborted = TRUE, !.ever_aborted = TRUE]
    /\ UNCHANGED others

InitAbort == InitData /\ mem = NoAbort
NextAbort ==
    \/ \E q \in AbortArgs, thrower \in AbortThrowers : AbortCall(q, thrower)
    \/ AbortStep
    \/ AbortThrow
SpecAbort == InitAbort /\ [][NextAbort]_vars


\* ------------------------------------------------ CustomSelectionsState
\* parameters.selections and cache.results are objects keyed by the id of a
\* selection; a result is known by the number of the scoreMarkers call that
\* made it, and `live` holds the results that are allocated.
MaxResults == 3
SelectionIds == {"a", "b"}
SelectionIndices == {1, 2}
\* the property key an entry [id, value] of Object.entries is coerced to
EntryKey == [a |-> "a,[object Object]", b |-> "b,[object Object]"]
NoSelections ==
    [selections |-> NoFields, results |-> NoFields, live |-> {}, made |-> 0,
     filter_changed |-> FALSE, changed |-> FALSE, err |-> FALSE, op |-> "none"]

\* #liberate(i): frees this.#cache.results[i].raw, and throws a TypeError
\* when the cache has no entry under i
liberate(m, i) ==
    IF i \in DOMAIN m.results
    THEN [m EXCEPT !.live = @ \ {m.results[i]}]
    ELSE [m EXCEPT !.err = TRUE]

\* CellFilteringState.compute, as the selections see it
SelectionsFilter(b) ==
    /\ mem.op # "filter"
    /\ mem' = [mem EXCEPT !.filter_changed = b, !.op = "filter", !.err = FALSE]
    /\ UNCHANGED others

\* addSelection(id, selection)
addSelection(id, selection) ==
    /\ mem.made < MaxResults
    /\ LET res == mem.made + 1
           m1 == IF id \in DOMAIN mem.results THEN liberate(mem, id) ELSE mem
       IN  mem' = [m1 EXCEPT !.live = @ \cup {res}, !.made = res,
                             !.results = Put(@, id, res),
                             !.selections = Put(@, id, selection),
                             !.op = "add", !.err = FALSE]
    /\ UNCHANGED others

\* removeSelection(id), of a selection that was added
removeSelection(id) ==
    /\ id \in DOMAIN mem.results
    /\ mem' = [liberate(mem, id) EXCEPT
                  !.results = [k \in DOMAIN @ \ {id} |-> @[k]],
                  !.selections = [k \in DOMAIN @ \ {id} |-> @[k]],
                  !.op = "remove", !.err = FALSE]
    /\ UNCHANGED others

\* the loop of compute over Object.entries(this.#cache.results): it calls
\* #liberate with each entry and ends at the first call that throws
RECURSIVE LiberateEntries(_, _)
LiberateEntries(m, ids) ==
    IF ids = {} \/ m.err THEN m
    ELSE LET id == CHOOSE x \in ids : \A y \in ids : x = "a" \/ y # "a"
         IN  LiberateEntries(liberate(m, EntryKey[id]), ids \ {id})

\* CustomSelectionsState.compute
SelectionsCompute ==
    /\ mem.op # "compute"
    /\ LET m0 == [mem EXCEPT !.changed = FALSE, !.err = FALSE, !.op = "compute"]
           m1 == LiberateEntries(m0, DOMAIN m0.results)
       IN  mem' = IF ~mem.filter_changed THEN m0
                  ELSE IF m1.err THEN m1
                  ELSE [m1 EXCEPT !.selections = NoFields,
                                  !.results = NoFields, !.changed = TRUE]
    /\ UNCHANGED others

InitSelections == InitData /\ mem = NoSelections
NextSelections ==
    \/ \E b \in BOOLEAN : SelectionsFilter(b)
    \/ \E id \in SelectionIds, selection \in SelectionIndices :
          addSelection(id, selection)
    \/ \E id \in SelectionIds : removeSelection(id)
    \/ SelectionsCompute
SpecSelections == InitSelections /\ [][NextSelections]_vars


\* ------------------------------------- InputsState: the state file
\* What serialize writes and unserialize reads. The files of a reader are
\* objects with a type, a name and either an id or an offset and a size; the
\* cells have a categorical annotation X and a continuous annotation.
SavedFiles ==
    [f1 |-> [type |-> "h5", name |-> "a.h5", hasid |-> TRUE, id |-> "id1",
             offset |-> 0, size |-> 0],
     f2 |-> [type |-> "mtx", name |-> "b.mtx", hasid |-> FALSE, id |-> "",
             offset |-> 0, size |-> 7],
     f3 |-> [type |-> "genes", name |-> "b.tsv", hasid |-> FALSE, id |-> "",
             offset |-> 7, size |-> 3]]
\* this.#cache.readers, with the order of its keys
ReaderSets ==
    {[keys |-> <<"A">>, of |-> [A |-> [format |-> "10X", files |-> <<"f1">>]]],
     [keys |-> <<"B">>,
      of |-> [B |-> [format |-> "MatrixMarket", files |-> <<"f2", "f3">>]]],
     [keys |-> <<"B", "A">>,
      of |-> [A |-> [format |-> "MatrixMarket", files |-> <<"f2", "f3">>],
              B |-> [format |-> "10X", files |-> <<"f1">>]]],
     [keys |-> <<"A", "B">>,
      of |-> [A |-> [format |-> "10X", files |-> <<"f1">>],
              B |-> [format |-> "MatrixMarket", files |-> <<"f2", "f3">>]]]}
\* the annotations of the cells of the raw matrix
CellX == <<"x0", "x1", "x0">>
CellValue == <<0, 2, 4>>
NoCellSubset == [kind |-> "none", field |-> 0, values |-> <<>>, ranges |-> <<>>]
CellSubsets ==
    {NoCellSubset,
     [kind |-> "values", field |-> 1, values |-> <<"x0">>, ranges |-> <<>>],
     [kind |-> "values", field |-> 1, values |-> <<"x1", "x0">>,
      ranges |-> <<>>],
     [kind |-> "ranges", field |-> 2, values |-> <<>>,
      ranges |-> <<<<0, 1>>, <<3, 5>>>>],
     [kind |-> "ranges", field |-> 2, values |-> <<>>, ranges |-> <<<<1, 2>>>>]}
NoDirectIndices == [set |-> FALSE, indices |-> <<>>]
DirectSubsets ==
    {NoDirectIndices, [set |-> TRUE, indices |-> <<1>>],
     [set |-> TRUE, indices |-> <<0, 2>>]}
\* the identities of the rows of a matrix, and the modalities of a matrix
RowIdentities == {<<0, 1>>, <<1, 0>>}
ModalitySets == {{"RNA"}, {"RNA", "ADT"}}

\* harvest_subset_indices on the raw annotations: the cells that are kept
HarvestedCells(override, subset) ==
    IF override.set THEN override.indices
    ELSE IF subset.kind = "values"
    THEN SelectSeq(<<0, 1, 2>>,
                   LAMBDA i : \E k \in 1..Len(subset.values) :
                                 subset.values[k] = CellX[i + 1])
    ELSE IF subset.kind = "ranges"
    THEN SelectSeq(<<0, 1, 2>>,
                   LAMBDA i : \E k \in 1..Len(subset.ranges) :
                                 /\ CellValue[i + 1] >= subset.ranges[k][1]
                                 /\ CellValue[i + 1] <= subset.ranges[k][2])
    ELSE <<0, 1, 2>>

\* the group of one file: type and name, and id or offset and size
FileGroup(obj) ==
    IF obj.hasid THEN [type |-> obj.type, name |-> obj.name, id |-> obj.id]
    ELSE [type |-> obj.type, name |-> obj.name, offset |-> obj.offset,
          size |-> obj.size]
\* the file object unserialize makes of a group
FileOfGroup(current) ==
    IF "id" \in DOMAIN current
    THEN [type |-> current.type, name |-> current.name, hasid |-> TRUE,
          id |-> current.id, offset |-> 0, size |-> 0]
    ELSE [type |-> current.type, name |-> current.name, hasid |-> FALSE,
          id |-> "", offset |-> current.offset, size |-> current.size]

RECURSIVE Concat(_)
Concat(seqs) == IF seqs = <<>> THEN <<>> ELSE Head(seqs) \o Concat(Tail(seqs))
\* [].concat(...raw_ranges), and the pairs unserialize makes of it
FlatRanges(raw_ranges) == Concat(raw_ranges)
PairedRanges(ranges) ==
    [i \in 1..(Len(ranges) \div 2) |-> <<ranges[2 * i - 1], ranges[2 * i]>>]

\* InputsState.serialize: the parameters group
SerializedParameters(s) ==
    LET names == SortedKeys(s.readers.keys)
        groups == [i \in 1..Len(names) |->
                     [k \in 1..Len(s.readers.of[names[i]].files) |->
                        FileGroup(SavedFiles[s.readers.of[names[i]].files[k]])]]
        formats == [i \in 1..Len(names) |-> s.readers.of[names[i]].format]
        multifile == Len(formats) > 1
        cells ==
            IF s.override.set
            THEN [children |-> {"indices"}, indices |-> s.override.indices,
                  field |-> 0, values |-> <<>>, ranges |-> <<>>]
            ELSE [children |-> {"field", s.subset.kind}, indices |-> <<>>,
                  field |-> s.subset.field, values |-> s.subset.values,
                  ranges |-> FlatRanges(s.subset.ranges)]
    IN  [children |->
            {"files", "format"}
              \cup (IF multifile THEN {"sample_groups", "sample_names"}
                    ELSE IF s.sample_factor # Null THEN {"sample_factor"}
                    ELSE {})
              \cup (IF s.subset.kind # "none" \/ s.override.set
                    THEN {"subset"} ELSE {}),
         files |-> Concat(groups),
         format |-> [scalar |-> ~multifile, values |-> formats],
         sample_groups |-> [i \in 1..Len(names) |-> Len(groups[i])],
         sample_names |-> names,
         sample_factor |-> s.sample_factor,
         cells |-> cells]

\* the files of the i-th dataset of a file with several: all_files.slice(
\* start, sofar)
GroupFilesFromStart(all_files, sample_groups, i) ==
    SubSeq(all_files, 1, sample_groups[i])
GroupFiles(all_files, sample_groups, i) ==
    LET start == Len(Concat([j \in 1..(i - 1) |->
                               [k \in 1..sample_groups[j] |-> 0]]))
    IN  SubSeq(all_files, start + 1, start + sample_groups[i])

\* unserialize: the readers, the parameters and the direct subset
UnserializedParameters(phandle) ==
    LET all_files == [i \in 1..Len(phandle.files) |->
                         FileOfGroup(phandle.files[i])]
        solofile == phandle.format.scalar
        readers ==
            IF solofile
            THEN [k \in {"default"} |->
                     [format |-> phandle.format.values[1], files |-> all_files]]
            ELSE [k \in {phandle.sample_names[i] :
                             i \in 1..Len(phandle.sample_names)} |->
                     LET i == CHOOSE j \in 1..Len(phandle.sample_names) :
                                 phandle.sample_names[j] = k
                     IN  [format |-> phandle.format.values[i],
                          files |-> GroupFiles(all_files,
                                               phandle.sample_groups, i)]]
        cells == phandle.cells
        subset ==
            IF "subset" \notin phandle.children \/ "indices" \in cells.children
            THEN NoCellSubset
            ELSE IF "values" \in cells.children
            THEN [kind |-> "values", field |-> cells.field,
                  values |-> cells.values, ranges |-> <<>>]
            ELSE [kind |-> "ranges", field |-> cells.field, values |-> <<>>,
                  ranges |-> PairedRanges(cells.ranges)]
    IN  [readers |-> readers,
         sample_factor |-> IF solofile /\ "sample_factor" \in phandle.children
                           THEN phandle.sample_factor ELSE Null,
         subset |-> subset,
         override |-> IF "subset" \in phandle.children
                         /\ "indices" \in cells.children
                      THEN [set |-> TRUE, indices |-> cells.indices]
                      ELSE NoDirectIndices]


\* the row identities of a state file: the layouts of the versions
NoResults ==
    [children |-> {}, permutation |-> <<>>, identities_type |-> "none",
     dataset |-> <<>>, group |-> NoFields, indices |-> <<>>]
\* InputsState.serialize: the results group holds the identities of every
\* available modality
SerializedResults(s) ==
    [NoResults EXCEPT !.children = {"identities"}, !.identities_type = "Group",
                      !.group = s.ids]
\* the results groups that earlier versions wrote, by their fields
ResultLayouts == {"permutation", "permutation+identities", "DataSet", "Group",
                  "none", "indices", "indices+identities"}
OlderResults(layout, ids, group) ==
    CASE layout = "permutation" ->
            [NoResults EXCEPT !.children = {"permutation"}, !.permutation = ids]
      [] layout = "permutation+identities" ->
            [NoResults EXCEPT !.children = {"permutation", "identities"},
                              !.permutation = ids,
                              !.identities_type = "DataSet",
                              !.dataset = <<0, 1>>]
      [] layout = "DataSet" ->
            [NoResults EXCEPT !.children = {"identities"},
                              !.identities_type = "DataSet", !.dataset = ids]
      [] layout = "Group" ->
            [NoResults EXCEPT !.children = {"identities"},
                              !.identities_type = "Group", !.group = group]
      [] layout = "indices" ->
            [NoResults EXCEPT !.children = {"indices"}, !.indices = ids]
      [] layout = "indices+identities" ->
            [NoResults EXCEPT !.children = {"indices", "identities"},
                              !.indices = ids, !.identities_type = "DataSet",
                              !.dataset = <<0, 1>>]
      [] OTHER -> NoResults

\* `dhandle.values.forEach((x, i) => { ids[x] = i; })`
Inverted(values) ==
    [x \in 1..Len(values) |->
        (CHOOSE i \in 1..Len(values) : values[i] = x - 1) - 1]

\* scran.updateRowIdentities(matrix, ids): null when the rows are in the
\* order of ids already, else the permutation that was applied
NullPerm == <<>>
updateRowIdentities(current, ids) ==
    IF current = ids THEN NullPerm
    ELSE [i \in 1..Len(ids) |->
             (CHOOSE j \in 1..Len(current) : current[j] = ids[i]) - 1]

\* the source of the row identities unserialize picks, by the fields of the
\* results group
IdentitySourceLatestFirst(solofile, rhandle) ==
    IF "identities" \in rhandle.children THEN rhandle.identities_type
    ELSE IF solofile /\ "permutation" \in rhandle.children THEN "permutation"
    ELSE IF ~solofile /\ "indices" \in rhandle.children THEN "indices"
    ELSE IF solofile THEN "none" ELSE "missing"
IdentitySource(solofile, rhandle) ==
    IF solofile
    THEN IF "permutation" \in rhandle.children THEN "permutation"
         ELSE IF "identities" \in rhandle.children THEN rhandle.identities_type
         ELSE "none"
    ELSE IF "indices" \in rhandle.children THEN "indices"
         ELSE IF "identities" \in rhandle.children THEN rhandle.identities_type
         ELSE "missing"

\* unserialize: `perm`, for a matrix with the modalities and row orders of
\* `current`
UnserializedPerm(solofile, rhandle, current) ==
    LET source == IdentitySource(solofile, rhandle)
        rna(ids) == [a \in {"RNA"} |-> updateRowIdentities(current["RNA"], ids)]
    IN  CASE source = "permutation" -> rna(Inverted(rhandle.permutation))
          [] source = "indices" -> rna(rhandle.indices)
          [] source = "DataSet" -> rna(rhandle.dataset)
          [] source = "Group" ->
                [a \in DOMAIN rhandle.group \cap DOMAIN current |->
                    updateRowIdentities(current[a], rhandle.group[a])]
          [] OTHER -> NoFields

\* createPermuter(perm) applied to x, and the permuter `x => {}`
createPermuter(perm, x) == [i \in 1..Len(x) |-> x[perm[i] + 1]]
NoPermuter == [noop |-> TRUE, perm |-> NullPerm]
\* unserialize: the permuters, one for every available modality
Permuters(perm, available) ==
    [a \in available |->
        IF a \in DOMAIN perm /\ perm[a] # NullPerm
        THEN [noop |-> FALSE, perm |-> perm[a]]
        ELSE NoPermuter]
\* what a permuter makes of an array
Permuted(permuter, x) ==
    IF permuter.noop THEN x ELSE createPermuter(permuter.perm, x)

\* an InputsState that has computed, its state file and the state made of it
NoStateFile == [written |-> FALSE, version |-> "none", parameters |-> NoFields,
                results |-> NoResults]
NoReloaded == [done |-> FALSE, err |-> FALSE, parameters |-> NoFields,
               source |-> "none", current |-> NoFields, perm |-> NoFields,
               permuters |-> NoFields]
InitReload ==
    /\ InitData
    /\ \E readers \in ReaderSets, sample_factor \in {Null, 1},
          subset \in CellSubsets, override \in DirectSubsets,
          available \in ModalitySets :
          \E ids \in [available -> RowIdentities] :
             mem = [state |-> [readers |-> readers,
                               sample_factor |-> sample_factor,
                               subset |-> subset, override |-> override,
                               ids |-> ids],
                    file |-> NoStateFile, reloaded |-> NoReloaded]

\* InputsState.serialize(handle, embeddedSaver)
ReloadSerialize ==
    /\ ~mem.file.written
    /\ mem' = [mem EXCEPT !.file =
                  [written |-> TRUE, version |-> "v2.0",
                   parameters |-> SerializedParameters(mem.state),
                   results |-> SerializedResults(mem.state)]]
    /\ UNCHANGED others

\* the same analysis as a file of an earlier version: another results group
ReloadOlder(layout, ids, stored) ==
    /\ mem.file.written /\ mem.file.version = "v2.0" /\ ~mem.reloaded.done
    /\ layout \in {"indices", "indices+identities"}
          => ~mem.file.parameters.format.scalar
    /\ layout \in {"permutation", "permutation+identities", "none"}
          => mem.file.parameters.format.scalar
    /\ layout # "Group" => stored = {"RNA"}
    /\ mem' = [mem EXCEPT !.file.version = layout,
                          !.file.results =
                              OlderResults(layout, ids,
                                           [a \in stored |-> ids])]
    /\ UNCHANGED others

\* unserialize(handle, embeddedLoader); `current` holds the rows of the
\* matrices as they are loaded now
ReloadUnserialize(current) ==
    /\ mem.file.written /\ ~mem.reloaded.done
    /\ DOMAIN current = DOMAIN mem.state.ids
    /\ LET solofile == mem.file.parameters.format.scalar
           rhandle == mem.file.results
           source == IdentitySource(solofile, rhandle)
           perm == UnserializedPerm(solofile, rhandle, current)
       IN  mem' = [mem EXCEPT !.reloaded =
                      IF source = "missing"
                      THEN [NoReloaded EXCEPT !.done = TRUE, !.err = TRUE]
                      ELSE [done |-> TRUE, err |-> FALSE,
                            parameters |->
                                UnserializedParameters(mem.file.parameters),
                            source |-> source, current |-> current,
                            perm |-> perm,
                            permuters |-> Permuters(perm, DOMAIN current)]]
    /\ UNCHANGED others

NextReload ==
    \/ ReloadSerialize
    \/ \E layout \in ResultLayouts \ {"missing"}, ids \in RowIdentities,
          stored \in {{"RNA"}, {"ADT"}, {"RNA", "ADT"}} :
          ReloadOlder(layout, ids, stored)
    \/ \E available \in ModalitySets :
          \E current \in [available -> RowIdentities] :
             ReloadUnserialize(current)
SpecReload == InitReload /\ [][NextReload]_vars

\* ================================================================ claims

\* the RUN message a step of compute has just handed to the worker, if any
SentBy(w) == IF sent'[w] = sent[w] THEN <<>>
             ELSE <<toWorker'[w][Len(toWorker'[w])]>>

\* --------------------------------------------------------------------
\* C1 (change propagation): a compute of CellFilteringState called while the
\* InputsState or a valid QC state has its changed flag set, of
\* NormalizationState while the QC or the filtering state has it set, of
\* CombineEmbeddingsState while a PCA state has it set, or of UmapState while
\* the neighbor index has it set, returns with the step's own changed flag
\* set, whatever its arguments, those of the call before included.
C1_ChangePropagation ==
    [][/\ FilterCompute
            => ((changed["inputs"] \/ \E m \in upstream.qc : changed[QcOf[m]])
                  => changed'["cell_filtering"])
       /\ NormCompute
            => ((changed["quality_control"] \/ changed["cell_filtering"])
                  => changed'["normalization"])
       /\ \A a \in CombineInputs :
            CombineCompute(a)
              => ((\E m \in Modalities : changed[PcaOf[m]])
                    => changed'["combine_embeddings"])
       /\ \A args \in UmapInputs :
            UmapCompute(args)
              => (changed["neighbor_index"] => changed'["umap"])]_vars

\* a step computed twice with the same arguments, an upstream flag set at
\* the second call
C1_Propagated(step) ==
    /\ unit = step
    /\ last.op = "compute" /\ last.repeat /\ ~last.quiet
    /\ changed[step]

C1_Witness == C1_Propagated("umap")
C1_WitnessFilter == C1_Propagated("cell_filtering") /\ changed["adt_quality_control"]
C1_WitnessNorm == C1_Propagated("normalization")
C1_WitnessCombine == C1_Propagated("combine_embeddings")

\* a compute that replaced or freed nothing and sent nothing
Untouched(step) ==
    /\ st'[step].touched = {}
    /\ st'[step].cache = st[step].cache
    /\ sent' = sent /\ toWorker' = toWorker /\ cache' = cache

\* C2 (idempotence): a compute of InputsState, QualityControlState,
\* CellFilteringState, NormalizationState, CombineEmbeddingsState,
\* ChooseClusteringState or UmapState with the arguments of the call before,
\* made while no upstream changed flag is set, ends with changed = false,
\* replaces or frees no cache entry and sends no message to the worker.
C2_Idempotence ==
    [][(last.op = "compute" /\ \A s \in UpstreamOf(unit) : ~changed[s])
         => /\ \A a \in InputsInputs :
                 (InputsCompute(a) /\ last.args = a)
                   => (~changed'["inputs"] /\ Untouched("inputs"))
            /\ \A a \in QcInputs :
                 (QcCompute(a) /\ last.args = a)
                   => (~changed'["quality_control"]
                       /\ Untouched("quality_control"))
            /\ FilterCompute
                 => (~changed'["cell_filtering"] /\ Untouched("cell_filtering"))
            /\ NormCompute
                 => (~changed'["normalization"] /\ Untouched("normalization"))
            /\ \A a \in CombineInputs :
                 (CombineCompute(a) /\ last.args = a)
                   => (~changed'["combine_embeddings"]
                       /\ Untouched("combine_embeddings"))
            /\ \A a \in ChooseInputs :
                 (ChooseCompute(a) /\ last.args = a)
                   => (~changed'["choose_clustering"]
                       /\ Untouched("choose_clustering"))
            /\ \A args \in UmapInputs :
                 (UmapCompute(args) /\ last.args = args)
                   => (~changed'["umap"] /\ Untouched("umap"))]_vars

\* a step computed twice with the same arguments, no upstream flag set at
\* the second call
C2_Repeated(step) ==
    /\ unit = step
    /\ last.op = "compute" /\ last.repeat /\ last.quiet
    /\ ~changed[step] /\ st[step].touched = {}

C2_Witness == C2_Repeated("quality_control") /\ "filters" \in st["quality_control"].cache
C2_WitnessInputs == C2_Repeated("inputs")
C2_WitnessFilter == C2_Repeated("cell_filtering") /\ "matrix" \in st["cell_filtering"].cache
C2_WitnessNorm == C2_Repeated("normalization") /\ "matrix" \in st["normalization"].cache
C2_WitnessCombine == C2_Repeated("combine_embeddings") /\ upstream.pca = Modalities
C2_WitnessChoose == C2_Repeated("choose_clustering")
C2_WitnessUmap == C2_Repeated("umap") /\ Len(sent["umap"]) > 1

\* C3 (reneighbor rule): a compute of UmapState sends at most one message,
\* a RUN; the RUN carries neighbor data if and only if the neighbor index
\* changed, or num_neighbors differs from the stored value, or the state
\* held a reloaded result. On a live state with an unchanged index, the
\* same num_neighbors with another num_epochs or min_dist sends RUN
\* without neighbor data, another num_neighbors sends RUN with neighbor
\* data, and equal parameters send nothing.
C3_Expected(args) ==
    LET ixc == changed["neighbor_index"]
        p == um.parameters
        sameNN == args.num_neighbors = p.num_neighbors
        sameRest == args.num_epochs = p.num_epochs /\ args.min_dist = p.min_dist
        out == SentBy("umap")
    IN  /\ Len(sent'["umap"]) <= Len(sent["umap"]) + 1
        /\ \A i \in 1..Len(out) : out[i].cmd = "RUN" /\ out[i].params = args
        /\ (out # <<>> /\ out[1].neighbors.present)
             <=> (out # <<>> /\ (ixc \/ ~sameNN \/ um.reloaded.present))
        /\ out # <<>> /\ out[1].neighbors.present
             => out[1].neighbors = [present |-> TRUE, k |-> args.num_neighbors,
                                    index |-> index]
        /\ ~um.reloaded.present /\ ~ixc =>
             /\ sameNN /\ ~sameRest => out # <<>> /\ ~out[1].neighbors.present
             /\ ~sameNN => out # <<>> /\ out[1].neighbors.present
             /\ sameNN /\ sameRest => out = <<>>

C3_ReneighborRule ==
    [][\A args \in UmapInputs : UmapCompute(args) => C3_Expected(args)]_vars

\* a live state whose latest compute changed num_epochs or min_dist only:
\* its RUN, without neighbor data, waits for a worker that holds the
\* neighbors of the run before
C3_Witness ==
    /\ last.op = "compute"
    /\ ~um.reloaded.present
    /\ Len(sent["umap"]) = 3
    /\ toWorker["umap"] # <<>>
    /\ LET m == toWorker["umap"][Len(toWorker["umap"])]
       IN  m.cmd = "RUN" /\ ~m.neighbors.present /\ m.params = last.args
    /\ wst["umap"].nn.present

\* --------------------------------------------------------------------
\* C4 (worker task lifecycle): no two tasks sent to one worker share an id;
\* a promise is settled at most once; the callback, given a reply that is
\* no '*_iter' message, settles the pending promise of the task with the
\* reply's id and no other - rejected with the reply's error payload when
\* the type is 'error', resolved with its data otherwise - and removes the
\* task's bookkeeping entry; an '*_iter' message settles nothing.
C4_UniqueIds ==
    \A w \in Workers : \A i, j \in 1..Len(sent[w]) :
        sent[w][i].id = sent[w][j].id => i = j

C4_SettledOnce ==
    \A w \in Workers : \A h \in 1..Len(prom[w]) :
        /\ prom[w][h].settles <= 1
        /\ prom[w][h].st = "pending" <=> prom[w][h].settles = 0

\* the bookkeeping holds exactly the tasks whose promise is pending
C4_Bookkeeping ==
    \A w \in Workers :
        /\ Len(prom[w]) = Len(sent[w])
        /\ \A k \in 1..Len(sent[w]) :
              prom[w][k].st = "pending"
                <=> /\ sent[w][k].id \in DOMAIN cache[w].promises
                    /\ cache[w].promises[sent[w][k].id] = k

C4_Reply(w) ==
    LET msg == Head(fromWorker[w])
    IN  IF EndsWithIter(msg.type)
        THEN prom' = prom /\ cache' = cache
        ELSE \E k \in 1..Len(sent[w]) :
                /\ sent[w][k].id = msg.id
                /\ prom[w][k].st = "pending"
                /\ prom'[w][k] =
                      IF msg.type = "error"
                      THEN [st |-> "rejected", value |-> msg.error, settles |-> 1]
                      ELSE [st |-> "resolved", value |-> msg.data, settles |-> 1]
                /\ \A v \in Workers : \A h \in 1..Len(prom[v]) :
                      <<v, h>> # <<w, k>> => prom'[v][h] = prom[v][h]
                /\ msg.id \notin DOMAIN cache'[w].promises

C4_TaskLifecycle ==
    [][/\ C4_UniqueIds /\ C4_UniqueIds'
       /\ C4_SettledOnce /\ C4_SettledOnce'
       /\ C4_Bookkeeping /\ C4_Bookkeeping'
       /\ \A w \in Workers : Callback(w) => C4_Reply(w)]_vars

\* three tasks were sent; one was rejected with the worker's error, one
\* resolved with the coordinates fetched, and the bookkeeping is empty
C4_Witness ==
    /\ Len(sent["umap"]) = 3
    /\ DOMAIN cache["umap"].promises = {}
    /\ \E h \in 1..Len(prom["umap"]) :
          prom["umap"][h].st = "resolved" /\ prom["umap"][h].value.tag = "run"
    /\ wst["umap"].coords.tag = "run"

\* one promise rejected with the worker's error payload
C4_WitnessRejected ==
    \E h \in 1..Len(prom["umap"]) :
        prom["umap"][h] = [st |-> "rejected", value |-> WorkerError, settles |-> 1]

\* --------------------------------------------------------------------
\* the steps that compute after the embedding steps in runAnalysis
AfterEmbeddings == {"kmeans_cluster", "snn_graph_cluster", "choose_clustering",
                    "marker_detection", "cell_labelling", "custom_selections"}

\* C5 (dependency order): runAnalysis computes, saveAnalysis serializes and
\* loadAnalysis unserializes a step only after every step it is constructed
\* with in create_analysis, and a step is computed or serialized only when
\* its state exists.
C5_DependencyOrder ==
    /\ \A s \in drv.done : UpstreamOf(s) \subseteq drv.done
    /\ drv.done \subseteq drv.made
    /\ \A s \in drv.made : UpstreamOf(s) \subseteq drv.made
    /\ \A i \in 1..Len(LoadOrder) :
          UpstreamOf(LoadOrder[i]) \subseteq {LoadOrder[j] : j \in 1..(i - 1)}

\* a second run has computed every step; a save has written every step; a
\* load has come to the filtering step
C5_Witness == drv.op = "run" /\ drv.runs = 2 /\ drv.done = Steps
C5_WitnessSave == drv.op = "save" /\ drv.done = Steps
C5_WitnessLoad == drv.op = "load" /\ "cell_filtering" \in drv.made

\* C6 (synchronous dispatch): a compute of an embedding step that decides
\* to recompute hands its RUN message to the worker before it returns; in
\* runAnalysis the computes of the t-SNE and UMAP steps, and with them the
\* RUN messages of this run, come before the computes of the clustering and
\* marker steps; and runAnalysis waits for a reply of a worker only after
\* the last compute.
C6_Handed(w, args) ==
    /\ Len(toWorker'[w]) = Len(toWorker[w]) + 1
    /\ LET m == toWorker'[w][Len(toWorker'[w])]
       IN  /\ m.cmd = "RUN" /\ m.params = args
           /\ toWorker'[w] = Append(toWorker[w], m)

C6_InOrder ==
    drv.op = "run" =>
       /\ drv.done \cap AfterEmbeddings # {} => {"tsne", "umap"} \subseteq drv.done
       /\ ("umap" \in drv.done /\ changed["umap"])
             => Len(sent["umap"]) > drv.base["umap"]
       /\ drv.wait # "none" => drv.done = Steps

C6_SynchronousDispatch ==
    /\ []C6_InOrder
    /\ [][/\ \A args \in UmapInputs :
              (UmapCompute(args) /\ changed'["umap"]) => C6_Handed("umap", args)
          /\ \A args \in TsneInputs :
              (TsneCompute(args)
                 /\ (changed["neighbor_index"]
                       \/ args.perplexity # ts.parameters.perplexity
                       \/ args.iterations # ts.parameters.iterations))
                => C6_Handed("tsne", args)]_vars

\* runAnalysis has computed its last step while the RUN messages of both
\* embedding steps still wait for their workers
C6_Witness ==
    /\ drv.op = "run" /\ drv.done = Steps
    /\ \A w \in Workers :
          /\ Len(sent[w]) > drv.base[w]
          /\ toWorker[w] # <<>> /\ Head(toWorker[w]).cmd = "RUN"

\* --------------------------------------------------------------------
\* C7 (awaiting the in-flight run): on a non-reloaded UmapState a FETCH is
\* sent only for a summary() or serialize() whose RUN, outstanding when it
\* was called, has been replied to; what the call yields is the data of
\* the reply to its FETCH. On a reloaded state the call ends at once with
\* the deserialized coordinates and sends nothing. summary() hands out
\* copies: a caller writing into them changes neither the deserialized
\* arrays nor what a later summary() or serialize() yields.
C7_FetchAfterRun ==
    \A i \in 1..Len(SentBy("umap")) :
        SentBy("umap")[i].cmd = "FETCH" =>
            \E c \in 1..Len(calls) :
                /\ calls[c].st = "awaitRun"
                /\ calls[c].run # Null => prom["umap"][calls[c].run].st = "resolved"
                /\ calls'[c].st = "awaitFetch"
                /\ ~um.reloaded.present

C7_Yielded ==
    ret.st = "done" =>
        IF ret.reloaded
        THEN /\ ret.value = FileCoords
             /\ ret.from = "summary" => ret.buf # "file"
        ELSE /\ prom["umap"][ret.fetch].st = "resolved"
             /\ ret.value = prom["umap"][ret.fetch].value
             /\ ret.value.tag = "run"

C7_Reloaded ==
    (UmapSummary \/ UmapSerialize) /\ um.reloaded.present =>
        /\ sent' = sent /\ toWorker' = toWorker
        /\ calls' = calls
        /\ ret'.st = "done" /\ ret'.reloaded

C7_AwaitRun ==
    [][/\ C7_FetchAfterRun
       /\ C7_Yielded /\ C7_Yielded'
       /\ C7_Reloaded
       /\ um.reloaded.present => heap.file = FileCoords
       /\ CallerWrite => heap'.file = heap.file /\ wst' = wst]_vars

\* a reloaded state gave its arrays to summary(), the caller wrote into
\* them, the state was recomputed, and serialize() then wrote what the
\* worker sent for its FETCH
C7_Witness ==
    /\ heap = [file |-> FileCoords, out |-> Scribble]
    /\ ret.from = "serialize" /\ ret.st = "done" /\ ~ret.reloaded
    /\ ret.value.tag = "run"
    /\ sent["umap"][3].cmd = "FETCH"

\* a reloaded state whose serialize() follows a summary() the caller
\* wrote into
C7_WitnessReloaded ==
    /\ heap = [file |-> FileCoords, out |-> Scribble]
    /\ ret.from = "serialize" /\ ret.st = "done" /\ ret.reloaded

\* --------------------------------------------------------------------
\* loadAnalysis has come to its end
Loaded == drv.op = "idle" /\ drv.pc > 0 /\ drv.runs = 0

\* C8 (no recomputation after load): loadAnalysis ends with a state for
\* every step, on which compute can be called with the parameters of the
\* file.
C8_LoadedAnalysis == Loaded => (~drv.failed /\ drv.made = Steps)

\* C8, for one step: a compute on a state made by unserialize, with the
\* parameters of the file and no upstream flag set, ends with changed =
\* false, replaces or frees no cache entry and sends no message.
C8_ReloadedSteps ==
    [][(last.op = "unserialize" /\ \A s \in UpstreamOf(unit) : ~changed[s])
         => /\ \A a \in InputsInputs :
                 (InputsCompute(a) /\ last.args = a)
                   => (~changed'["inputs"] /\ Untouched("inputs"))
            /\ \A a \in QcInputs :
                 (QcCompute(a) /\ last.args = a)
                   => (~changed'["quality_control"]
                       /\ Untouched("quality_control"))
            /\ FilterCompute
                 => (~changed'["cell_filtering"] /\ Untouched("cell_filtering"))
            /\ \A a \in CombineInputs :
                 (CombineCompute(a) /\ last.args = a)
                   => (~changed'["combine_embeddings"]
                       /\ Untouched("combine_embeddings"))
            /\ \A a \in ChooseInputs :
                 (ChooseCompute(a) /\ last.args = a)
                   => (~changed'["choose_clustering"]
                       /\ Untouched("choose_clustering"))
            /\ \A args \in UmapInputs :
                 (UmapCompute(args) /\ last.args = args)
                   => (~changed'["umap"] /\ Untouched("umap"))]_vars

\* --------------------------------------------------------------------
\* C9 (worker failure keeps the last-good state): when the latest RUN of
\* a UmapState was answered with an error, the stored parameters are those
\* of the last successful run, whose coordinates the worker still holds.
C9_LastGoodParameters ==
    /\ um.run # Null
    /\ prom["umap"][um.run].st = "rejected"
    /\ wst["umap"].coords.tag = "run"
    => /\ um.parameters.num_neighbors = wst["umap"].coords.k
       /\ um.parameters.num_epochs = wst["umap"].coords.epochs
       /\ um.parameters.min_dist = wst["umap"].coords.min_dist

\* C9, its last part: a compute with the parameters of a RUN that failed
\* submits them again and sets changed.
C9_Resubmitted ==
    [][\A args \in UmapInputs :
          /\ UmapCompute(args)
          /\ um.run # Null
          /\ prom["umap"][um.run].st = "rejected"
          /\ last.op = "compute" /\ last.args = args
          => /\ changed'["umap"]
             /\ Len(SentBy("umap")) = 1]_vars

\* --------------------------------------------------------------------
\* C10 (clean termination): once a worker is terminated no task of it is
\* pending: every promise is settled and the bookkeeping is empty.
C10_CleanTermination ==
    \A w \in Workers :
        ~alive[w] =>
            /\ DOMAIN cache[w].promises = {}
            /\ \A h \in 1..Len(prom[w]) : prom[w][h].st # "pending"

\* --------------------------------------------------------------------
\* C11 (UMAP animate), the call: on a reloaded state animate() clears the
\* reloaded result and sends one RUN message with animate = true and the
\* neighbors for the stored num_neighbors, while no iteration message is
\* about; on a state that is not reloaded it sends one RERUN message with
\* no neighbors. The promise it returns is tied to the task just sent.
C11_Call ==
    [][UmapAnimate =>
         LET m == SentBy("umap")
             c == calls'[Len(calls')]
         IN  /\ Len(m) = 1
             /\ c.from = "animate" /\ c.run = Len(prom'["umap"])
             /\ IF um.reloaded.present
                THEN /\ ~um'.reloaded.present
                     /\ m[1].cmd = "RUN"
                     /\ m[1].neighbors
                          = computeNeighbors(index, um.parameters.num_neighbors)
                     /\ m[1].params = [um.parameters EXCEPT !.animate = TRUE]
                     /\ \A i \in 1..Len(fromWorker["umap"]) :
                           ~EndsWithIter(fromWorker["umap"][i].type)
                     /\ wst["umap"].coords = NoCoords
                ELSE /\ m[1].cmd = "RERUN"
                     /\ ~m[1].neighbors.present
                     /\ um' = um]_vars

\* C11, the promise: animate()'s promise resolves only once the task it
\* sent has been replied to and resolved
C11_Resolves ==
    (ret.from = "animate" /\ ret.st = "done")
        => /\ prom["umap"][ret.fetch].st = "resolved"
           /\ ret.fetch \notin {cache["umap"].promises[i] :
                                   i \in DOMAIN cache["umap"].promises}
           /\ sent["umap"][ret.fetch].cmd
                 = (IF ret.reloaded THEN "RUN" ELSE "RERUN")

\* C11 (UMAP animate)
C11_UmapAnimate == []C11_Resolves /\ C11_Call

\* animate() on a reloaded state has returned a promise that resolved after
\* the worker showed iterations of the run
C11_Witness ==
    /\ ret.from = "animate" /\ ret.st = "done" /\ ret.reloaded
    /\ wst["umap"].coords.tag = "run"

C11_WitnessRerun ==
    ret.from = "animate" /\ ret.st = "done" /\ ~ret.reloaded

\* --------------------------------------------------------------------
\* C12 (t-SNE animate): animate() on a reloaded result sends RUN with the
\* neighbor data and returns a promise tied to that run.
C12_TsneAnimate ==
    [][(TsneAnimate /\ ts.reloaded) =>
         LET m == SentBy("tsne")
         IN  /\ Len(m) = 1
             /\ m[1].cmd = "RUN"
             /\ m[1].neighbors.present
             /\ Len(calls') = Len(calls) + 1
             /\ calls'[Len(calls')].run = Len(prom'["tsne"])]_vars

\* C12, its first half alone: the RUN message with the neighbors is sent
C12_Resent ==
    [][(TsneAnimate /\ ts.reloaded) =>
         LET m == SentBy("tsne")
         IN  /\ Len(m) = 1
             /\ m[1].cmd = "RUN"
             /\ m[1].neighbors
                  = computeNeighbors(index,
                        perplexityToNeighbors(ts.parameters.perplexity))]_vars

\* --------------------------------------------------------------------
\* the stored parameters of the metrics are those of the call
SameMito(s, a) ==
    /\ ~Differs(s.parameters, "use_mito_default", a.use_mito_default)
    /\ ~Differs(s.parameters, "mito_prefix", a.mito_prefix)

\* C13 (independent gating in quality control): a compute with skip = false,
\* after a compute with skip = false, with inputs.changed = false and only
\* nmads different from the stored value, recomputes the filters and sets
\* changed, and neither frees nor recomputes the metrics.
C13_IndependentGating ==
    [][\A a \in QcInputs :
          (/\ QcCompute(a)
           /\ last.op = "compute"
           /\ ~a.skip /\ ~last.args.skip
           /\ ~changed["inputs"]
           /\ SameMito(st["quality_control"], a)
           /\ Differs(st["quality_control"].parameters, "nmads", a.nmads))
          => /\ changed'["quality_control"]
             /\ "filters" \in st'["quality_control"].touched
             /\ "filters" \in st'["quality_control"].cache
             /\ "metrics" \notin st'["quality_control"].touched
             /\ "metrics_buffer" \notin st'["quality_control"].touched
             /\ "metrics" \in st'["quality_control"].cache
             /\ st'["quality_control"].parameters.nmads = a.nmads]_vars

\* a compute that changed nmads alone has recomputed the filters
C13_Witness ==
    /\ unit = "quality_control"
    /\ last.op = "compute" /\ ~last.args.skip
    /\ last.prior # NoFields /\ ~last.prior.skip
    /\ last.prior.nmads # last.args.nmads
    /\ last.prior.use_mito_default = last.args.use_mito_default
    /\ last.prior.mito_prefix = last.args.mito_prefix
    /\ last.quiet
    /\ st["quality_control"].touched = {"filters"}
    /\ changed["quality_control"]

\* --------------------------------------------------------------------
\* C14 (skipping clears the cache), as stated: after a compute with skip =
\* true the cache holds neither metrics nor filters.
C14_SkipClears ==
    [][\A a \in QcInputs :
          (QcCompute(a) /\ a.skip)
            => st'["quality_control"].cache \cap {"metrics", "filters"} = {}]_vars

\* C14, amended: a compute with skip = true computes nothing and deletes the
\* metrics when the inputs changed or the metrics' parameters differ from
\* the stored ones, the filters when moreover nmads differs; metrics and
\* filters that are still those of the inputs and of the stored parameters
\* are kept. The first compute with skip = false after it sets changed, ends
\* with both in the cache and recomputes at least those that were missing.
C14_SkipKeepsValid ==
    [][\A a \in QcInputs :
          QcCompute(a) =>
            LET s == st["quality_control"]
                t == st'["quality_control"]
                kept == t.cache \cap {"metrics", "filters"}
            IN  /\ a.skip =>
                     /\ kept \subseteq s.cache
                     /\ t.touched \cap kept = {}
                     /\ t.cache \subseteq s.cache
                     /\ kept # {} => (~changed["inputs"] /\ SameMito(s, a))
                     /\ "filters" \in kept
                          => ~Differs(s.parameters, "nmads", a.nmads)
                     /\ (~changed["inputs"] /\ SameMito(s, a))
                          => ("metrics" \in s.cache => "metrics" \in kept)
                /\ (/\ ~a.skip
                    /\ "skip" \in DOMAIN s.parameters
                    /\ s.parameters.skip)
                     => /\ changed'["quality_control"]
                        /\ {"metrics", "filters"} \subseteq t.cache
                        /\ ({"metrics", "filters"} \ s.cache) \subseteq t.touched]_vars

\* a compute with skip = true has returned and the metrics and filters of
\* the compute before it are still in the cache
C14_Witness ==
    /\ unit = "quality_control"
    /\ last.op = "compute" /\ last.args.skip
    /\ {"metrics", "filters"} \subseteq st["quality_control"].cache
    /\ st["quality_control"].touched = {}

\* --------------------------------------------------------------------
\* where the events of a kind for a step stand in the log of the call
At(ev, step) == {i \in 1..Len(drv.log) :
                    drv.log[i].ev = ev /\ drv.log[i].step = step}

Pos(step) == CHOOSE i \in 1..Len(RunOrder) : RunOrder[i] = step

\* C15 (error propagation without rollback): once a compute has thrown in
\* runAnalysis, the call has rejected; no compute, startFun or finishFun of
\* a later step is in the log of the call and the call never resolves; and
\* the throw leaves the states of all steps as the computes before it left
\* them.
C15_Aborted ==
    \A i \in 1..Len(drv.log) :
        drv.log[i].ev = "throw" =>
            /\ drv.op = "idle" /\ drv.failed
            /\ \A j \in 1..Len(drv.log) :
                  /\ drv.log[j].ev \notin {"resolve", "reject"}
                  /\ j # i =>
                       \/ Pos(drv.log[j].step) < Pos(drv.log[i].step)
                       \/ /\ drv.log[j].step = drv.log[i].step
                          /\ drv.log[j].ev = "start" /\ j < i
            /\ \A step \in Steps :
                  Pos(step) < Pos(drv.log[i].step) <=> At("compute", step) # {}

C15_NoRollback ==
    [][(drv.op = "run" /\ drv'.op = "idle" /\ drv'.failed /\ ~drv.rejected)
         => /\ st' = st /\ um' = um /\ ts' = ts /\ changed' = changed
            /\ cache' = cache /\ heap' = heap
            /\ At("throw", drv.thrower)' # {}]_vars

C15_ErrorPropagation == []C15_Aborted /\ C15_NoRollback

\* the compute of the marker step has thrown in a call with callbacks, after
\* the inputs were loaded and the UMAP run was submitted, and finishFun of
\* the UMAP step was called after that
C15_Witness ==
    /\ drv.callbacks
    /\ At("throw", "marker_detection") # {}
    /\ "raw_matrix" \in st["inputs"].cache
    /\ \E i \in At("throw", "marker_detection"), j \in At("finish", "umap") :
          i < j

\* --------------------------------------------------------------------
\* the RUN tasks the call has sent to a worker
RunsOf(w) == {i \in (drv.base[w] + 1)..Len(sent[w]) : sent[w][i].cmd = "RUN"}

\* the call has resolved / rejected at the end of runAnalysis
Resolved == drv.log # <<>> /\ drv.log[Len(drv.log)].ev = "resolve"
Rejected == \E i \in 1..Len(drv.log) : drv.log[i].ev = "reject"

\* C17 (completion of runAnalysis): when the promise of runAnalysis has
\* resolved, every RUN task the call sent to the t-SNE and UMAP workers has
\* been replied to with success, and with callbacks finishFun was invoked
\* once for every asynchronous step; a call in which such a task is rejected
\* does not resolve, and a call rejects after its last compute only when a
\* task of a worker was rejected.
C17_Completion ==
    /\ Resolved =>
          /\ drv.op = "idle" /\ ~drv.failed
          /\ \A w \in Workers : \A i \in RunsOf(w) : prom[w][i].st = "resolved"
          /\ drv.callbacks =>
                \A step \in AsyncSteps : Cardinality(At("finish", step)) = 1
    /\ Rejected =>
          /\ drv.failed
          /\ \E w \in Workers : \E i \in 1..Len(prom[w]) :
                prom[w][i].st = "rejected"

\* a call with callbacks has resolved after a RUN task of each worker
C17_Witness ==
    /\ Resolved /\ drv.callbacks
    /\ \A w \in Workers : RunsOf(w) # {}

\* a call in which the UMAP run was rejected has rejected
C17_WitnessReject ==
    /\ Rejected
    /\ \E i \in RunsOf("umap") : prom["umap"][i].st = "rejected"

\* --------------------------------------------------------------------
\* C18 (callback protocol), as stated: in a call with callbacks that has
\* resolved, startFun was invoked once before the compute of every step and
\* finishFun once after it, with the summary exactly when the step's flag
\* is set.
C18_CallbackProtocol ==
    (Resolved /\ drv.callbacks) =>
        \A step \in Steps :
            /\ Cardinality(At("start", step)) = 1
            /\ Cardinality(At("compute", step)) = 1
            /\ Cardinality(At("finish", step)) = 1
            /\ \A i \in At("start", step), j \in At("compute", step),
                  k \in At("finish", step) :
                    /\ i < j /\ j < k
                    /\ drv.log[k].payload = changed[step]

\* what holds of the callbacks: the protocol for every step but the last,
\* custom_selections, whose compute no startFun precedes
C18_ExceptCustom ==
    (Resolved /\ drv.callbacks) =>
        /\ \A step \in Steps \ {"custom_selections"} :
            /\ Cardinality(At("start", step)) = 1
            /\ Cardinality(At("compute", step)) = 1
            /\ Cardinality(At("finish", step)) = 1
            /\ \A i \in At("start", step), j \in At("compute", step),
                  k \in At("finish", step) :
                    /\ i < j /\ j < k
                    /\ drv.log[k].payload = changed[step]
        /\ At("start", "custom_selections") = {}
        /\ Cardinality(At("finish", "custom_selections")) = 1

\* --------------------------------------------------------------------
\* the buffers the cache of InputsState owns
Owned(m, slots) == UNION {m.refs[s].bufs : s \in {t \in slots : ~m.refs[t].view}}

\* C16 (release on failure), as stated: when InputsState.compute has failed,
\* every buffer allocated during the failed call is released.
C16_AllReleased ==
    (mem.op = "compute" /\ mem.err) => mem.made \cap mem.live = {}

\* C16, amended: when InputsState.compute has failed, every buffer the call
\* allocated and did not store in the cache is released - no allocated
\* buffer is left that the cache does not own - and, but for a failure in
\* guessFeatures, so is every buffer that the failing stage allocated. The
\* buffers that the call stored in the cache before it failed stay
\* allocated; the cache owns them.
C16_ReleaseOnFailure ==
    (mem.op = "compute" /\ mem.err) =>
        /\ mem.live \subseteq Owned(mem, InputSlots)
        /\ \A s \in LocalSlots : mem.refs[s] = NoRef
        /\ mem.fail # "guess" => mem.stage \cap mem.live = {}
        /\ mem.made \cap mem.live
             \subseteq Owned(mem, {"raw_matrix", "multi_block_ids", "raw_block_ids"})

\* the subsetting of the second modality has failed, after the datasets were
\* loaded and bound in the same call
C16_Witness ==
    /\ mem.op = "compute" /\ mem.err
    /\ mem.fail = "columns2"
    /\ mem.made \cap mem.live # {}
    /\ mem.stage # {}

\* the binding of the second modality has failed after the first was bound
C16_WitnessBind ==
    /\ mem.op = "compute" /\ mem.err
    /\ mem.fail = "names2"
    /\ Cardinality(mem.stage) >= 4

\* ---------------------------------------------------------------- C19
ResultSlots == {"discard_buffer", "combined_buffer"}
StepOf == [discard_buffer |-> "filter", combined_buffer |-> "combine"]
\* the upstream states a step can use, and their buffers
UsableBy(slot) ==
    IF slot = "discard_buffer" THEN mem.valid.qc
    ELSE UsablePcs(mem.valid.pca, mem.par.weights)
UpstreamSlot(slot, x) ==
    IF slot = "discard_buffer" THEN QcSlot[x] ELSE PcaSlot[x]
\* the result of the step is a view on the buffer of the one usable
\* upstream, with its shape
ViewOnUsable(slot) ==
    /\ mem.refs[slot].view
    /\ mem.refs[slot].bufs # {}
    /\ \E x \in UsableBy(slot) :
          /\ UsableBy(slot) = {x}
          /\ mem.refs[slot].bufs = mem.refs[UpstreamSlot(slot, x)].bufs
          /\ slot = "combined_buffer" => mem.dims = PcaDims[x]
\* a step that built its result holds a view on a live buffer if one
\* upstream is usable, and a buffer of its own if not
C19_ComputedView ==
    \A slot \in ResultSlots :
        StepOf[slot] \in mem.ran =>
            IF Cardinality(UsableBy(slot)) = 1
            THEN ViewOnUsable(slot) /\ mem.refs[slot].bufs \subseteq mem.live
            ELSE ~mem.refs[slot].view
\* the file written has a copy of the result only if it is not a view
C19_NoCopy ==
    (mem.file.saved /\ mem.file.own /\ ~mem.file.loaded) =>
        /\ mem.file.discards <=> ~mem.refs["discard_buffer"].view
        /\ mem.file.combined <=> ~mem.refs["combined_buffer"].view
        /\ ("filter" \in mem.ran /\ Cardinality(UsableBy("discard_buffer")) = 1)
              => ~mem.file.discards
        /\ ("combine" \in mem.ran /\ Cardinality(UsableBy("combined_buffer")) = 1)
              => ~mem.file.combined
\* loading a file without the copy fails unless one upstream is usable, and
\* then the view is built again, with the shape it had
C19_Rebuilt ==
    mem.file.loaded =>
        LET f == mem.file
            noq == ~f.discards /\ Cardinality(f.qc) # 1
            nop == ~f.combined /\ Cardinality(UsablePcs(f.pca, f.weights)) # 1
        IN  /\ mem.err <=> (noq \/ nop)
            /\ mem.err => mem.fail = (IF noq THEN "discards" ELSE "combined")
            /\ ~mem.err =>
                 /\ IF f.discards THEN ~mem.refs["discard_buffer"].view
                    ELSE ViewOnUsable("discard_buffer")
                 /\ IF f.combined THEN ~mem.refs["combined_buffer"].view
                    ELSE ViewOnUsable("combined_buffer")
                 /\ f.combined => mem.dims = f.shape
            /\ (f.own /\ "filter" \in f.ran) => ~noq
            /\ (f.own /\ "combine" \in f.ran) =>
                  ~nop /\ (~noq => mem.dims = f.shape)
\* C19: with exactly one usable upstream the result of CellFilteringState
\* and of CombineEmbeddingsState is a view on the buffer upstream,
\* serialize writes no copy of it, and unserialize builds the view again,
\* with the same shape, from the one usable upstream, or fails if the
\* number of usable upstreams is not one.
C19_ViewsNotSerializedTwice ==
    C19_ComputedView /\ C19_NoCopy /\ C19_Rebuilt
\* a file saved with several PCA states of which one has a positive weight
\* was loaded: the combined PCs are a view again
C19_Witness ==
    /\ mem.file.loaded /\ mem.file.own /\ ~mem.err
    /\ mem.file.ran = {"filter", "combine"}
    /\ mem.file.pca = Modalities
    /\ ~mem.file.combined
    /\ mem.file.discards
    /\ ViewOnUsable("combined_buffer")
    /\ mem.dims = mem.file.shape
\* a file saved with one modality was loaded: both results are views
C19_WitnessOne ==
    /\ mem.file.loaded /\ mem.file.own /\ ~mem.err
    /\ ~mem.file.combined /\ ~mem.file.discards
    /\ ViewOnUsable("combined_buffer") /\ ViewOnUsable("discard_buffer")
\* a file without the combined PCs and with two usable PCA states
C19_WitnessError ==
    /\ mem.file.loaded /\ mem.err /\ mem.fail = "combined"

\* ---------------------------------------------------------------- C20
\* C20: a read through a view that CellFilteringState or
\* CombineEmbeddingsState holds on a buffer that the step upstream has
\* released, by free or by computing anew, never returns stale data
\* silently.
C20_ViewLifetime == mem.read # "stale"
\* a read through a view returns stale data only if the buffer upstream was
\* released
C20_StaleOnlyReleased ==
    mem.read = "stale" =>
        \E slot \in ResultSlots :
            /\ mem.refs[slot].view
            /\ ~(mem.refs[slot].bufs \subseteq mem.live)

\* ---------------------------------------------------------------- C21
\* C21: a CellFilteringState produced by unserialize answers fetchDiscards,
\* fetchFilteredMatrix, fetchFilteredBlock and summary without a compute
\* before, in any order of the calls, also for a dataset with blocks.
C21_AccessorsAnswer == mem.loaded => mem.out # TypeError
\* an accessor throws only in fetchFilteredBlock, for a dataset with
\* blocks, while the cache has no matrix
C21_OnlyBlockBeforeMatrix ==
    mem.out = TypeError =>
        /\ mem.op = "fetchFilteredBlock"
        /\ mem.loaded /\ mem.block # NoBlock /\ "matrix" \notin mem.keys

\* ---------------------------------------------------------------- C30
Discarded(i) == \E x \in Modalities : mem.qc[x] # NoVector /\ mem.qc[x][i] # 0
\* C30: after compute with several valid QC states a cell is discarded
\* iff a valid QC state discards it, the filtered matrix holds the cells
\* that are not discarded, and summary().retained is their number.
C30_DiscardsByOr ==
    ("matrix" \in mem.keys /\ mem.qc["ADT"] # NoVector) =>
        /\ \A i \in Cells : mem.discard_buffer[i] = 1 <=> Discarded(i)
        /\ \A i \in Cells :
              (\E j \in 1..Len(mem.matrix) : mem.matrix[j] = i) <=> ~Discarded(i)
        /\ \A j \in 1..(Len(mem.matrix) - 1) : mem.matrix[j] < mem.matrix[j + 1]
        /\ mem.op = "summary" =>
              mem.out = Value(<<Cardinality({i \in Cells : ~Discarded(i)})>>)
\* summary() after a compute where only the ADT discards a cell
C30_Witness ==
    /\ mem.op = "summary" /\ ~mem.loaded /\ "matrix" \in mem.keys
    /\ mem.qc["ADT"] # NoVector
    /\ \E i \in Cells : mem.qc["RNA"][i] = 0 /\ mem.qc["ADT"][i] = 1
    /\ \E i \in Cells : mem.qc["RNA"][i] = 1 /\ mem.qc["ADT"][i] = 0
    /\ mem.out = Value(<<NCells - 2>>)

\* ---------------------------------------------------------------- C28
\* the states that hold several datasets and whose last call did not throw
SeveralLoaded(c) == ~mem.err /\ Len(c.abbreviated) > 1 /\ c.raw # <<>>
\* a comes before b when the names are sorted
NameBefore(a, b) == a = "A" /\ b = "B"
\* the level of the k-th column of the matrix, before and after the subset
RawLevel(c, k) == c.raw_block_levels[c.raw_block_ids[c.matrix[k] + 1] + 1]
Level(c, k) == c.block_levels[c.block_ids[k] + 1]

\* C28: when several datasets are loaded, the levels of the blocks are the
\* names of the datasets in sorted order, whatever the order of supply; the
\* block id of each cell is the position of its dataset in that list and its
\* __batch__ annotation is the name of the dataset; after a subset each cell
\* keeps its level, the levels that have no cell left are dropped, and the
\* ids are the positions in the list of the levels that remain.
C28_BatchLabels ==
    \A x \in StateNames :
      LET c == mem[x]
          levels == c.multi_block_levels
      IN  SeveralLoaded(c) =>
            /\ \A i \in 1..Len(c.abbreviated) :
                 \E j \in 1..Len(levels) : levels[j] = c.abbreviated[i]
            /\ Len(levels) = Len(c.abbreviated)
            /\ \A i, j \in 1..Len(levels) :
                 i < j => NameBefore(levels[i], levels[j])
            /\ Len(c.multi_block_ids) = Len(c.raw)
            /\ Len(c.batch) = Len(c.raw)
            /\ \A i \in 1..Len(c.raw) :
                 /\ c.multi_block_ids[i] \in 0..(Len(levels) - 1)
                 /\ levels[c.multi_block_ids[i] + 1] = c.raw[i].name
                 /\ c.batch[i] = c.raw[i].name
            /\ c.has_matrix =>
                 /\ Len(c.block_ids) = Len(c.matrix)
                 /\ \A k \in 1..Len(c.matrix) :
                      /\ c.block_ids[k] \in 0..(Len(c.block_levels) - 1)
                      /\ Level(c, k) = RawLevel(c, k)
                      /\ c.sample_factor = Null =>
                           Level(c, k) = c.raw[c.matrix[k] + 1].name
                 /\ \A b \in 1..Len(c.block_levels) :
                      \E k \in 1..Len(c.matrix) : c.block_ids[k] = b - 1
                 /\ \A a, b \in 1..Len(c.block_levels) :
                      a < b =>
                        \E i, j \in 1..Len(c.raw_block_levels) :
                          /\ i < j
                          /\ c.raw_block_levels[i] = c.block_levels[a]
                          /\ c.raw_block_levels[j] = c.block_levels[b]
\* datasets supplied as B, A, and a subset that left no cell of one of them
C28_Witness ==
    /\ SeveralLoaded(mem.s) /\ mem.s.has_matrix
    /\ mem.s.abbreviated = <<"B", "A">>
    /\ mem.s.sample_factor = Null
    /\ mem.s.matrix # <<>>
    /\ Len(mem.s.block_levels) < Len(mem.s.raw_block_levels)

\* ---------------------------------------------------------------- C29
\* C29: when several matrices are supplied, the block of each cell of the
\* matrix is its dataset of origin, whatever sample_factor is.
C29_BlocksByOrigin ==
    SeveralLoaded(mem.s) /\ mem.s.has_matrix =>
      \A k \in 1..Len(mem.s.matrix) :
        Level(mem.s, k) = mem.s.raw[mem.s.matrix[k] + 1].name
\* with a single matrix the blocks are those of sample_factor
C29_SingleMatrix ==
    LET c == mem.s
    IN  ~mem.err /\ Len(c.abbreviated) = 1 /\ c.has_matrix =>
          IF c.sample_factor = Null THEN c.block_ids = NoBlock
          ELSE \A k \in 1..Len(c.matrix) :
                 Level(c, k) = AnnotationX(c.raw[c.matrix[k] + 1])

\* ---------------------------------------------------------------- C24
\* the columns of the original dataset that the parameter-level subset of a
\* state selects: those whose X is x0, or all of them
ParameterColumns(c) ==
    LET all == [i \in 1..Len(c.raw) |-> i - 1]
    IN  IF c.subset = 1
        THEN SelectSeq(all, LAMBDA x : AnnotationX(c.raw[x + 1]) = "x0")
        ELSE all
\* the columns of the original dataset that the indices point at: themselves
\* if they are on the original dataset, else the columns the state had at
\* these positions
Pointed(c, arrays, idx, onOriginal) ==
    IF onOriginal THEN idx
    ELSE IF c.has_matrix THEN [i \in 1..Len(idx) |-> c.matrix[idx[i] + 1]]
    ELSE IF c.override THEN [i \in 1..Len(idx) |-> arrays[c.route][idx[i] + 1]]
    ELSE idx

\* C24: after setDirectSubset(indices) the state keeps the columns the
\* indices point at, and every later subsetting, compute() with another
\* parameter-level subset included, gives a matrix of exactly these columns;
\* setDirectSubset(null) gives back the columns that the stored
\* parameter-level subset selects.
C24_DirectOverrides ==
    [][~mem'.err =>
         /\ mem'.s.override /\ mem'.s.has_matrix =>
              mem'.s.matrix = mem'.arrays[mem'.s.route]
         /\ mem'.call.op = "setDirectSubset" =>
              /\ mem'.s.override
              /\ mem'.arrays[mem'.s.route] =
                   Pointed(mem.s, mem.arrays, mem'.call.idx,
                           mem'.call.onOriginal)
         /\ mem'.call.op = "clear" =>
              /\ ~mem'.s.override
              /\ mem'.s.has_matrix =>
                   mem'.s.matrix = ParameterColumns(mem'.s)]_vars
\* compute() was called with a parameter-level subset while direct indices
\* that select other columns were in place
C24_Witness ==
    /\ ~mem.err /\ mem.s.override /\ mem.s.has_matrix
    /\ mem.call.op = "compute"
    /\ mem.s.subset = 1
    /\ mem.s.matrix # ParameterColumns(mem.s)
\* the override was removed and the parameter-level subset selects again
C24_WitnessCleared ==
    /\ mem.call.op = "clear" /\ mem.s.has_matrix /\ mem.s.subset = 1

\* ---------------------------------------------------------------- C22
\* C22: createDirectSubset(idx) gives a state whose matrix has idx.length
\* columns, and undoSubset on that state turns [0, ..., idx.length - 1] into
\* the columns of the original dataset that were selected: idx itself when
\* onOriginal is true or the source had no subset, and keep[idx[i]] when the
\* source held the columns keep and onOriginal is false.
C22_SubsetInvariant ==
    mem.call.op = "createDirectSubset" /\ ~mem.err =>
      LET idx == mem.call.idx
          first == [i \in 1..Len(idx) |-> i - 1]
          keep == mem.s.matrix
          selected == IF mem.call.onOriginal THEN idx
                      ELSE [i \in 1..Len(idx) |-> keep[idx[i] + 1]]
      IN  /\ mem.d.has_matrix
          /\ Len(mem.d.matrix) = Len(idx)
          /\ undoSubset(mem.d, first, mem.arrays) = selected
          /\ mem.d.matrix = selected
          /\ ~mem.s.override /\ mem.s.subset = Null => selected = idx
\* a direct subset of a source that was itself subsetted, with indices on the
\* source's columns that differ from the original columns
C22_Witness ==
    /\ mem.call.op = "createDirectSubset" /\ ~mem.err
    /\ ~mem.call.onOriginal
    /\ Len(mem.s.matrix) < Len(mem.s.raw)
    /\ mem.d.matrix # mem.call.idx
    /\ Len(mem.call.idx) > 1

\* ---------------------------------------------------------------- C23
\* every buffer that the cache of the state refers to is live
BuffersUsable(c, live) ==
    \A x \in InputsSlotNames : c.own[x] # NoBuffer => c.own[x] \in live

\* C23: createDirectSubset leaves the source state as it was, parameters,
\* cache, changed flag and direct indices; with copy = true the caller's array
\* is as the caller gave it, and what the caller writes to it later changes
\* neither state; after free() of one state the buffers of the other are
\* still live.
C23_SourceUntouched ==
    [][/\ mem'.call.op = "createDirectSubset" =>
            /\ mem'.s = mem.s
            /\ mem.s.override =>
                 mem'.arrays[mem.s.route] = mem.arrays[mem.s.route]
            /\ mem'.call.copy => mem'.arrays["a2"] = mem'.call.idx
            /\ ~mem'.err => BuffersUsable(mem'.s, mem'.live)
       /\ mem'.call.op = "edit" =>
            /\ mem'.s = mem.s /\ mem'.d = mem.d
            /\ mem'.arrays[mem.d.route] = mem.arrays[mem.d.route]
            /\ mem.s.override =>
                 mem'.arrays[mem.s.route] = mem.arrays[mem.s.route]
       /\ mem'.call.op = "free" /\ mem'.call.given = "s" /\ mem'.d.has_matrix =>
            BuffersUsable(mem'.d, mem'.live)
       /\ mem'.call.op = "free" /\ mem'.call.given = "d"
            /\ "s" \notin mem'.freed =>
            BuffersUsable(mem'.s, mem'.live)]_vars
\* the caller gave indices with copy = true, on a subsetted source, and then
\* wrote to its array
C23_Witness ==
    /\ mem.call.op = "edit" /\ ~mem.err
    /\ mem.d.has_matrix /\ mem.d.route = "d"
    /\ mem.arrays["d"] # mem.arrays["a2"]
    /\ mem.arrays["d"] # mem.call.idx
\* the source was freed and the new state is still there
C23_WitnessFreed ==
    /\ "s" \in mem.freed /\ mem.d.has_matrix /\ mem.d.block_ids # NoBlock

\* ---------------------------------------------------------------- C25
\* the columns of a family in the gene annotations of one matrix
ColumnsOf(m, f) == {i \in 1..Len(m.genes) : m.genes[i].family = f}
\* the families that have a column in every matrix
Eligible(matrices) ==
    {f \in {FeatureFamilies[k] : k \in 1..4} :
       \A n \in 1..Len(matrices) : ColumnsOf(matrices[n], f) # {}}
\* the highest confidence of a family in one matrix
BestConfidence(m, f) ==
    CHOOSE c \in Confidences :
      /\ \E i \in ColumnsOf(m, f) : m.genes[i].confidence = c
      /\ \A i \in ColumnsOf(m, f) : m.genes[i].confidence <= c
\* the product of the highest confidences over the first n matrices
RECURSIVE ConfidenceProduct(_, _, _)
ConfidenceProduct(matrices, f, n) ==
    IF n = 0 THEN 1
    ELSE ConfidenceProduct(matrices, f, n - 1) * BestConfidence(matrices[n], f)
AllAnnotated == \A n \in 1..Len(mem.matrices) : mem.matrices[n].annotated

\* C25: commonFeatureTypes returns a family that has a column in every
\* dataset and whose product of the datasets' best confidences is the
\* largest, with for each dataset a column of that family of the dataset's
\* highest confidence; when no family has a column in every dataset it
\* returns best_type = null, and bind_single_modality and
\* validateAnnotations then throw an error on common feature types.
C25_FamilySelection ==
    LET m == mem.matrices
        n == Len(m)
    IN  /\ mem.op = "commonFeatureTypes" =>
             IF Eligible(m) = {} THEN mem.best_type = "null"
             ELSE /\ mem.best_type \in Eligible(m)
                  /\ \A g \in Eligible(m) :
                       ConfidenceProduct(m, g, n)
                         <= ConfidenceProduct(m, mem.best_type, n)
                  /\ Len(mem.out.fields) = n
                  /\ \A d \in 1..n :
                       \E i \in ColumnsOf(m[d], mem.best_type) :
                         /\ m[d].genes[i].field = mem.out.fields[d]
                         /\ m[d].genes[i].confidence
                              = BestConfidence(m[d], mem.best_type)
        /\ mem.op = "validateAnnotations" /\ AllAnnotated /\ Eligible(m) = {} =>
             /\ mem.out.kind = "error"
             /\ mem.out.message
                  = "cannot find common feature types across all matrices"
        /\ mem.op = "bind_single_modality" /\ AllAnnotated /\ Eligible(m) = {} =>
             /\ mem.out.kind = "error"
             /\ mem.out.message
                  = "no common feature types available across all matrices"
\* two datasets, the first with two columns of the winning family, the
\* second of which has the higher confidence
C25_Witness ==
    /\ mem.op = "commonFeatureTypes"
    /\ Len(mem.matrices) = 2
    /\ mem.best_type = "ensembl-human"
    /\ Cardinality(ColumnsOf(mem.matrices[1], mem.best_type)) = 2
    /\ mem.matrices[1].genes[1].confidence = 2
    /\ mem.matrices[1].genes[2].confidence = 1
    /\ mem.out.fields = <<"id", "id">>
\* two families have a column in every dataset and the one that comes later
\* in the list wins by its product
C25_WitnessRival ==
    /\ mem.op = "commonFeatureTypes"
    /\ Len(mem.matrices) = 1
    /\ Cardinality(Eligible(mem.matrices)) = 2
    /\ mem.best_type = "ensembl-human"
    /\ mem.out.fields = <<"name">>
\* no family in common, and the caller throws
C25_WitnessNone ==
    /\ mem.op = "bind_single_modality" /\ AllAnnotated
    /\ Len(mem.matrices) = 2
    /\ Eligible(mem.matrices) = {}
    /\ mem.out.kind = "error"

\* ---------------------------------------------------------------- C26
\* C26: validateAnnotations on several matrices, one of which has no gene
\* annotations, throws "cannot find gene annotations for matrix" with the
\* name of a matrix that has none; on a single matrix without gene
\* annotations it returns features.RNA = {common: null, fields: null}.
C26_MissingGenes ==
    mem.op = "validateAnnotations" /\ ~AllAnnotated =>
      IF Len(mem.matrices) > 1
      THEN /\ mem.out.kind = "error"
           /\ mem.out.message = "cannot find gene annotations for matrix"
           /\ \E n \in 1..Len(mem.matrices) :
                /\ ~mem.matrices[n].annotated
                /\ mem.matrices[n].name = mem.out.matrix
      ELSE mem.out = Returned3(<<>>, NoCount)
\* two matrices, only the second of which has no gene annotations
C26_Witness ==
    /\ mem.op = "validateAnnotations"
    /\ Len(mem.matrices) = 2
    /\ mem.matrices[1].annotated /\ ~mem.matrices[2].annotated
    /\ mem.out.matrix = "4k"
\* a single matrix without gene annotations
C26_WitnessSingle ==
    /\ mem.op = "validateAnnotations"
    /\ Len(mem.matrices) = 1 /\ ~AllAnnotated
    /\ mem.out.kind = "value"

\* ---------------------------------------------------------------- C27
\* C27: validateAnnotations on several matrices never returns a result with
\* common = 0: an empty intersection of the chosen identifiers is an error.
C27_EmptyIntersectionFatal ==
    mem.op = "validateAnnotations" /\ Len(mem.matrices) > 1 =>
      ~(mem.out.kind = "value" /\ mem.out.common = 0)
\* what validateAnnotations returns on several matrices is the number of
\* identifiers that the chosen columns share, zero included
C27_CountsIntersection ==
    mem.op = "validateAnnotations" /\ Len(mem.matrices) > 1
      /\ mem.out.kind = "value" =>
        mem.out.common =
          Cardinality({g \in {"g1", "g2"} :
                         \A n \in 1..Len(mem.matrices) :
                           g \in IdsOf(mem.matrices[n].genes,
                                       mem.out.fields[n])})

\* C36: cache coherence of quality control. After a compute call with
\* skip = false, metrics and filters are both cached, the metrics are those of
\* the current matrix of the inputs under the stored mito settings, and the
\* filters are those of these metrics under the stored nmads; whatever the
\* last call was, cached filters never come from other metrics than the
\* cached ones.
C36_CacheCoherence ==
    mem.turn = "inputs" /\ mem.op # "none" =>
        /\ ~mem.parameters.skip =>
              /\ mem.metrics =
                    computePerCellQCMetrics(
                        mem.matrix,
                        MitoSubset(mem.parameters.use_mito_default,
                                   mem.parameters.mito_prefix))
              /\ mem.filters =
                    computePerCellQCFilters(mem.metrics, mem.parameters.nmads)
        /\ mem.filters.present =>
              mem.metrics.present /\ mem.filters.metrics = mem.metrics

\* filters are kept across a call that changes neither inputs nor parameters,
\* after a skipped call changed the number of MADs and another restored it
C36_Witness ==
    /\ mem.op = "compute" /\ ~mem.parameters.skip /\ ~mem.changed
    /\ mem.matrix = MaxMatrices /\ mem.filters.present
    /\ mem.parameters.nmads = 4 /\ ~mem.parameters.use_mito_default

\* metrics survive skipped calls that change nothing else
C36_WitnessSkipped ==
    /\ mem.op = "compute" /\ mem.parameters.skip
    /\ mem.metrics.present /\ ~mem.filters.present

\* C32: quality-control round trip and default. unserialize after serialize
\* gives the skip, use_mito_default, mito_prefix and nmads of the serialized
\* state, and metrics and filters are cached exactly when they were; a file
\* without a `skip` dataset gives skip = false.
C32_RoundTrip ==
    /\ mem.op = "unserialize" =>
          /\ mem.parameters = mem.saved.parameters
          /\ mem.metrics.present = mem.saved.metrics.present
          /\ mem.filters.present = mem.saved.filters.present
    /\ mem.op = "unserialize_old" =>
          /\ mem.parameters.skip = FALSE
          /\ \A k \in {"use_mito_default", "mito_prefix", "nmads"} :
                mem.parameters[k] = mem.saved.parameters[k]
          /\ mem.metrics.present = mem.saved.metrics.present
          /\ mem.filters.present = mem.saved.filters.present

\* a skipped state with metrics and without filters comes back as it was
C32_Witness ==
    /\ mem.op = "unserialize" /\ mem.parameters.skip
    /\ mem.metrics.present /\ ~mem.filters.present
    /\ ~mem.parameters.use_mito_default /\ mem.parameters.nmads = 4

\* an older file of a state that filtered
C32_WitnessOld ==
    /\ mem.op = "unserialize_old" /\ mem.filters.present
    /\ mem.parameters.mito_prefix = "MT-"

\* C35: staged gating in InputsState.compute. The datasets are reloaded
\* exactly when matrices is not null and its abbreviation differs from the
\* stored one; the blocks are rebuilt exactly when a reload happened or
\* sample_factor differs from the stored one; the subset is rebuilt exactly
\* when the blocks were rebuilt or no direct subset is set and subset differs
\* from the stored one; changed is true after the call exactly when a stage
\* ran.
C35_StagedGating ==
    [][\A a \in InputsInputs :
          InputsCompute(a) =>
              LET s == st["inputs"]
                  ran == st'["inputs"].touched
                  loaded == LoadEntries \subseteq ran
                  blocked == BlockEntries \subseteq ran
                  subsetted == SubsetEntries \subseteq ran
              IN  /\ ran \subseteq LoadEntries \cup BlockEntries \cup SubsetEntries
                  /\ loaded <=>
                        /\ a.matrices # Null
                        /\ \/ "abbreviated" \notin DOMAIN s.parameters
                           \/ s.parameters.abbreviated # abbreviate(a.matrices)
                  /\ ~loaded => ran \cap LoadEntries = {}
                  /\ blocked <=>
                        \/ loaded
                        \/ "sample_factor" \notin DOMAIN s.parameters
                        \/ s.parameters.sample_factor # a.sample_factor
                  /\ subsetted <=>
                        \/ blocked
                        \/ /\ RAW_SUBSET_OVERRIDE \notin s.cache
                           /\ \/ "subset" \notin DOMAIN s.parameters
                              \/ s.parameters.subset # a.subset
                  /\ ~subsetted => ran \cap SubsetEntries = {}
                  /\ changed'["inputs"] <=> (loaded \/ blocked \/ subsetted)]_vars

\* a call with another subset on a state with a direct subset ran no stage
C35_Witness ==
    /\ last.op = "compute" /\ last.args \in InputsInputs
    /\ RAW_SUBSET_OVERRIDE \in st["inputs"].cache
    /\ st["inputs"].touched = {} /\ ~changed["inputs"]
    /\ "subset" \in DOMAIN st["inputs"].parameters
    /\ st["inputs"].parameters.subset # last.args.subset

\* only the subset stage ran
C35_WitnessSubsetOnly ==
    /\ last.op = "compute" /\ last.args \in InputsInputs
    /\ st["inputs"].touched = SubsetEntries /\ changed["inputs"]

\* C37: no run on missing or stale neighbors. Whenever a UmapState (fresh,
\* reloaded or animated) hands its worker a RUN message without neighbor
\* data, an earlier RUN message to that worker carried the neighbors of the
\* current index for the num_neighbors of the message, and no RUN message in
\* between carried other neighbors.
C37_NeighborsAtWorker ==
    [][Len(sent'["umap"]) > Len(sent["umap"]) =>
          LET m == toWorker'["umap"][Len(toWorker'["umap"])]
              carried == {i \in 1..Len(drv.log) :
                             drv.log[i].cmd = "RUN"
                             /\ drv.log[i].neighbors.present}
          IN  m.cmd = "RUN" /\ ~m.neighbors.present =>
                /\ carried # {}
                /\ \A i \in carried :
                      (\A j \in carried : j <= i) =>
                          drv.log[i].neighbors =
                              computeNeighbors(index', m.params.num_neighbors)]_vars

\* the index was rebuilt before the first run of a state, and the run after
\* it changed the number of epochs only: its RUN carries nothing and follows
\* one that carried the neighbors of the rebuilt index
C37_Witness ==
    /\ Len(drv.log) = 2 /\ index = MaxIndex
    /\ last.op = "compute"
    /\ drv.log[1].cmd = "RUN" /\ drv.log[1].neighbors.present
    /\ drv.log[1].neighbors.index = MaxIndex
    /\ drv.log[2].cmd = "RUN" /\ ~drv.log[2].neighbors.present

\* a state reloaded from a file was animated and then computed with another
\* number of epochs
C37_WitnessAnimated ==
    /\ Len(drv.log) = 2 /\ last.op = "compute"
    /\ drv.log[1].cmd = "RUN" /\ drv.log[1].params.animate
    /\ drv.log[1].neighbors.present
    /\ drv.log[2].cmd = "RUN" /\ ~drv.log[2].neighbors.present
    /\ ~drv.log[2].params.animate

\* C38: a direct subset is seen downstream. When setDirectSubset has changed
\* the cells of an InputsState that holds a matrix, the next run with the
\* same matrices and parameters finds inputs.changed = true when quality
\* control computes, and quality control (unless skipped) recomputes its
\* metrics, which are then those of the new cells.
C38_SeenDownstream ==
    [][\A q \in QcInputs :
          DirectQc(q) /\ mem.direct /\ mem.same /\ mem.qargs = q =>
              /\ mem.changed_inputs
              /\ ~q.skip => /\ "metrics" \in mem'.qc.touched
                            /\ mem'.metrics_of = mem'.cells]_vars

\* what the code does in that case: quality control keeps the metrics of the
\* cells from before the direct subset
C38_StaleMetrics ==
    /\ mem.pc = "idle" /\ mem.same /\ ~mem.changed_inputs /\ ~mem.changed_qc
    /\ mem.override # Null /\ mem.cells.by = "indices"
    /\ "metrics" \in mem.qc.cache /\ mem.metrics_of.by = "subset"
    /\ mem.metrics_of.files = mem.cells.files

\* C39: consistency after an aborted run. When a run aborted at a step that
\* threw after upstream steps had recomputed, and the next run has the same
\* parameters and completes, every step downstream of a step that changed in
\* the aborted run was recomputed in that next run, and no step holds results
\* derived from upstream results that were replaced since.
C39_ConsistentAfterAbort ==
    /\ mem.pc = 0 /\ ~mem.aborted /\ mem.after_abort /\ mem.same
    => /\ \A s \in AbortSteps : Consistent(s)
       /\ \A s \in AbortSteps :
             ReadBy(s) \cap mem.changed_in_abort # {} => s \in mem.recomputed

\* as long as no run has aborted, completed runs leave every step consistent
C39_ConsistentWithoutAbort ==
    mem.pc = 0 /\ ~mem.ever_aborted => \A s \in AbortSteps : Consistent(s)

\* a completed run after an aborted one, same parameters: normalization keeps
\* results of a filtered matrix that was replaced
C39_Stale ==
    /\ mem.pc = 0 /\ ~mem.aborted /\ mem.after_abort /\ mem.same
    /\ ~Consistent("normalization") /\ Consistent("cell_filtering")
    /\ mem.recomputed = {}

\* C40: a failed InputsState operation leaves the state as it was. When
\* compute fails because the subset field or the sample factor is not in the
\* cell annotations, no entry of the cache refers to a released buffer
\* afterwards and the stored parameters are those from before the call.
C40_FailureLeavesState ==
    [][\A a \in InputsArgs, f \in {"field", "factor"} :
          InputsBuffers(a, f) =>
              /\ \A s \in InputSlots : mem'.refs[s].bufs \subseteq mem'.live
              /\ mem'.inp = mem.inp]_vars

\* what the code leaves behind: a compute whose subset field does not exist,
\* on a state with a matrix, has released the matrix the cache still holds
C40_Dangling ==
    /\ mem.op = "compute" /\ mem.err /\ mem.fail = "field"
    /\ mem.n > 1 /\ mem.made = {}
    /\ mem.refs["matrix"].bufs # {}
    /\ mem.refs["matrix"].bufs \cap mem.live = {}

\* C34: custom selections are invalidated by a filter change. compute called
\* while the filter's changed flag is true removes every stored selection and
\* its results, releases the results and sets changed = true, whatever the
\* number of stored selections; called while the flag is false it leaves
\* selections and results as they are and sets changed = false.
C34_Invalidated ==
    [][SelectionsCompute =>
          IF mem.filter_changed
          THEN /\ ~mem'.err
               /\ mem'.selections = NoFields /\ mem'.results = NoFields
               /\ mem'.live = {} /\ mem'.changed
          ELSE /\ mem'.selections = mem.selections
               /\ mem'.results = mem.results /\ mem'.live = mem.live
               /\ ~mem'.changed /\ ~mem'.err]_vars

\* what the code does with stored selections when the filter has changed:
\* compute throws, nothing is removed or released, and changed is false
C34_Thrown ==
    /\ mem.op = "compute" /\ mem.err /\ mem.filter_changed /\ ~mem.changed
    /\ DOMAIN mem.selections = SelectionIds
    /\ mem.live = {mem.results[id] : id \in SelectionIds}

\* with no selection stored, or an unchanged filter, compute does as claimed
C34_EmptyOrUnchanged ==
    [][SelectionsCompute /\ (mem.results = NoFields \/ ~mem.filter_changed) =>
          /\ ~mem'.err
          /\ mem'.changed = mem.filter_changed
          /\ mem'.selections = mem.selections
          /\ mem'.results = mem.results /\ mem'.live = mem.live]_vars

\* C31: inputs round trip. unserialize after serialize gives each dataset
\* name of a state with several datasets its own files, in order, and its
\* format; gives the one reader of a single-dataset state the files of that
\* dataset and the sample_factor of the state; and gives back the direct
\* indices when a direct subset is set, else the field with its values or
\* ranges, so that the reloaded state selects the same cells.
C31_RoundTrip ==
    mem.reloaded.done /\ ~mem.reloaded.err =>
        LET s == mem.state
            r == mem.reloaded.parameters
            names == {s.readers.keys[i] : i \in 1..Len(s.readers.keys)}
            files(name) == [k \in 1..Len(s.readers.of[name].files) |->
                               SavedFiles[s.readers.of[name].files[k]]]
        IN  /\ IF Cardinality(names) > 1
               THEN /\ DOMAIN r.readers = names
                    /\ \A name \in names :
                          /\ r.readers[name].files = files(name)
                          /\ r.readers[name].format = s.readers.of[name].format
               ELSE /\ Cardinality(DOMAIN r.readers) = 1
                    /\ \A name \in names, k \in DOMAIN r.readers :
                          /\ r.readers[k].files = files(name)
                          /\ r.readers[k].format = s.readers.of[name].format
                    /\ r.sample_factor = s.sample_factor
            /\ IF s.override.set THEN r.override = s.override
               ELSE ~r.override.set /\ r.subset = s.subset
            /\ HarvestedCells(r.override, r.subset)
                  = HarvestedCells(s.override, s.subset)

\* two datasets supplied as B, A and a subset by ranges have been reloaded
C31_Witness ==
    /\ mem.reloaded.done /\ ~mem.reloaded.err
    /\ mem.state.readers.keys = <<"B", "A">>
    /\ mem.state.subset.kind = "ranges" /\ Len(mem.state.subset.ranges) = 2
    /\ ~mem.state.override.set
    /\ Len(mem.reloaded.parameters.readers["A"].files) = 2

\* one dataset with a sample factor, a subset and a direct subset on top
C31_WitnessDirect ==
    /\ mem.reloaded.done /\ ~mem.reloaded.err
    /\ Len(mem.state.readers.keys) = 1 /\ mem.state.sample_factor # Null
    /\ mem.state.override.set /\ mem.state.subset.kind = "values"
    /\ mem.reloaded.parameters.override.indices = <<0, 2>>

\* the identities unserialize is to restore, by the fields of the results
\* group: for each modality concerned, the order of the rows in the file
C33_Identities ==
    LET rhandle == mem.file.results
        solofile == mem.file.parameters.format.scalar
        available == DOMAIN mem.reloaded.current
    IN  IF solofile /\ "permutation" \in rhandle.children
        THEN [a \in {"RNA"} |-> Inverted(rhandle.permutation)]
        ELSE IF ~solofile /\ "indices" \in rhandle.children
        THEN [a \in {"RNA"} |-> rhandle.indices]
        ELSE IF "identities" \in rhandle.children
                /\ rhandle.identities_type = "DataSet"
        THEN [a \in {"RNA"} |-> rhandle.dataset]
        ELSE IF "identities" \in rhandle.children
        THEN [a \in DOMAIN rhandle.group \cap available |-> rhandle.group[a]]
        ELSE NoFields

\* C33: version branching on row identities. unserialize takes the row
\* identities of a single-file state from 'permutation' (inverted, RNA
\* only), else from an 'identities' dataset (RNA only), else from an
\* 'identities' group (each stored modality that is available), else from
\* nothing; those of a multi-file state from 'indices', else an 'identities'
\* dataset, else an 'identities' group. The permuters hold one entry for
\* every available modality, which does nothing when the rows need no
\* reordering.
C33_VersionBranching ==
    mem.reloaded.done /\ ~mem.reloaded.err =>
        LET r == mem.reloaded
            available == DOMAIN r.current
        IN  /\ DOMAIN r.perm = DOMAIN C33_Identities
            /\ \A a \in DOMAIN r.perm :
                  r.perm[a] = updateRowIdentities(r.current[a],
                                                  C33_Identities[a])
            /\ DOMAIN r.permuters = available
            /\ \A a \in available :
                  /\ r.permuters[a].noop <=>
                        (a \notin DOMAIN C33_Identities
                         \/ C33_Identities[a] = r.current[a])
                  /\ r.permuters[a].noop =>
                        Permuted(r.permuters[a], <<7, 8>>) = <<7, 8>>
                  /\ ~r.permuters[a].noop =>
                        Permuted(r.permuters[a], r.current[a])
                           = C33_Identities[a]

\* a single-file state of the first versions, with a permutation and an
\* identities dataset: the permutation is taken; the ADT rows have no entry
C33_Witness ==
    /\ mem.reloaded.done /\ ~mem.reloaded.err
    /\ mem.file.version = "permutation+identities"
    /\ mem.file.results.permutation = <<1, 0>>
    /\ DOMAIN mem.reloaded.current = {"RNA", "ADT"}
    /\ mem.reloaded.current["RNA"] = <<0, 1>>
    /\ ~mem.reloaded.permuters["RNA"].noop
    /\ mem.reloaded.permuters["ADT"].noop

\* a multi-file state with an identities group that stores both modalities
C33_WitnessGroup ==
    /\ mem.reloaded.done /\ ~mem.reloaded.err
    /\ ~mem.file.parameters.format.scalar
    /\ mem.file.results.identities_type = "Group"
    /\ DOMAIN mem.file.results.group = {"RNA", "ADT"}
    /\ DOMAIN mem.reloaded.current = {"RNA", "ADT"}
    /\ ~mem.reloaded.permuters["ADT"].noop
    /\ mem.reloaded.permuters["RNA"].noop

====
